---- MODULE Spec2Model ----
(***************************************************************************)
(* A model of the MCP-Dock gateway core: the service manager, the proxy    *)
(* manager with its HTTP routes, and the SSE session engine (rate limits,  *)
(* pending-message queues, cleanup), translated from the Python sources.   *)
(*                                                                         *)
(* The module holds several specifications over one set of variables:      *)
(*   SpecProxy : service manager + proxy manager + request dispatch        *)
(*   SpecRate  : session registration, rate limits, streams, cleanup       *)
(*   SpecQueue : one session's pending-message queue under a clock         *)
(*   SpecClean : the cleanup loop under weak fairness                      *)
(***************************************************************************)
EXTENDS Integers, Sequences, FiniteSets, TLC

(***************************************************************************)
(* Bounds of the model.                                                    *)
(***************************************************************************)
MaxRestarts == 1     \* restart_proxy calls suspended at one time
MaxSid == 4          \* SSE streams (and so session ids) in SpecRate
MaxStreams == 3      \* SSE streams in SpecStream
MaxCallStreams == 1  \* SSE streams in SpecCall
MaxCallMsg == 2      \* requests posted to SSE sessions in SpecCall
MaxRateTime == 70    \* the clock's last value in SpecRate and SpecStream
RateStep == 35       \* the clock's step in SpecRate and SpecStream
MaxFlood == 101      \* messages one queue is filled up to in SpecClean
MaxCleanDrain == 2   \* messages drained and delivered per stream in SpecClean
MaxCleanTime == 903  \* the clock's last value in SpecClean
CleanStep == 301     \* the clock's step in SpecClean
MaxMsg == 3          \* messages enqueued in SpecQueue
MaxQueueTime == 45   \* the clock's last value in SpecQueue
QueueStep == 15      \* the clock's step in SpecQueue

(***************************************************************************)
(* Names drawn by the operations.                                          *)
(***************************************************************************)
ServerNames == {"notion"}
ProxyNames == {"P", "Q"}
ToolNames == {"get-user", "delete-user"}
\* streamableHTTP servers take the branches of sse servers everywhere below.
Transports == {"stdio", "sse"}
ClientHosts == {"1.2.3.4", "5.6.7.8"}
SessionIds == 1..MaxSid
\* The streams SpecQueue and SpecClean open.
QueueStreams == {1}
CleanStreams == {1}

\* Tool lists an upstream can answer a verification with.
UpstreamToolLists == {<<>>, <<"get-user">>, <<"get-user", "delete-user">>}
\* exposed_tools settings a proxy configuration may carry.
ExposedChoices == {<<>>, <<"get-user">>}

VARIABLES
    servers,      \* McpServiceManager.servers : name -> McpServerInstance
    proxies,      \* McpProxyManager.proxies   : name -> McpProxyInstance
    initialized,  \* McpProxyManager.initialize() has run
    delayed,      \* name -> a _delayed_proxy_tool_update task is alive
    restarting,   \* name -> a restart_proxy call sleeps holding the name's instance
    lastReq,      \* the last tools/call handled and its answer
    now,          \* time.time()
    sessions,     \* SSESessionManager.sessions : id -> SSESession
    history,      \* _client_session_history : client -> creation times
    cache,        \* _rate_limit_cache : client:proxy -> (time, allowed)
    violations,   \* _rate_limit_violations : client -> records
    streams,      \* mcp_sse_stream generators : id -> position
    nextSid,      \* next fresh uuid
    lastReg,      \* the last register_session call and its result
    removals,     \* per stream: how often its session was taken out of the map
    cleaned,      \* streams whose session the cleanup took out
    delivered,    \* per stream: message frames written to the SSE stream
    lastDrain,    \* the last get_pending_messages call and what it returned
    nextMsg,      \* next message payload
    inflight,      \* handle_sse_message calls awaiting their upstream
    retry,        \* the verify_mcp_server call in progress and its retry loop
    call          \* a call of a message-shaping function: its arguments and result

proxyVars == <<servers, proxies, initialized, delayed, restarting, lastReq>>
sessVars == <<now, sessions, history, cache, violations, streams, nextSid,
              lastReg, removals, cleaned, delivered, lastDrain, nextMsg, inflight,
              retry, call>>
vars == <<proxyVars, sessVars>>

(***************************************************************************)
(* Sequence helpers.                                                       *)
(***************************************************************************)
Range(s) == {s[i] : i \in 1..Len(s)}

Max2(a, b) == IF a >= b THEN a ELSE b

(***************************************************************************)
(* Service manager (core/mcp_service.py).                                  *)
(***************************************************************************)
\* McpServerInstance; present = the name is a key of self.servers.
NoServer == [present |-> FALSE, transport_type |-> "stdio", status |-> "stopped",
             tools |-> <<>>, error_message |-> ""]

McpServerInstance(tt) ==
    [present |-> TRUE, transport_type |-> tt, status |-> "stopped",
     tools |-> <<>>, error_message |-> ""]

\* get_server_status rewrites the stored status while reading it.
\* (pid is never assigned by this code base, so the psutil branch is dead.)
get_server_status(srv) ==
    IF srv.transport_type = "stdio"
    THEN IF srv.status = "verified" THEN [srv EXCEPT !.status = "running"] ELSE srv
    ELSE IF srv.status \in {"verified", "running"}
         THEN [srv EXCEPT !.status = "connected"]
         ELSE IF srv.status = "stopped"
              THEN [srv EXCEPT !.status = "disconnected"]
              ELSE srv

start_server(srv) ==
    IF srv.status = "running" THEN srv
    ELSE [srv EXCEPT !.status = "running", !.error_message = ""]

stop_server(srv) ==
    IF srv.transport_type \in {"sse", "streamableHTTP"}
    THEN [srv EXCEPT !.status = "stopped", !.error_message = ""]
    ELSE [srv EXCEPT !.status = "stopped"]

\* verify_mcp_server with the upstream's outcome as input: ok = the retried
\* connection succeeded, tl = the tool list it returned.
verify_mcp_server(srv, ok, tl) ==
    IF srv.transport_type = "stdio"
    THEN IF ~ok
         THEN [srv EXCEPT !.status = "error", !.error_message = "verification failed"]
         ELSE IF tl # <<>>
              THEN [srv EXCEPT !.tools = tl, !.status = "running", !.error_message = ""]
              ELSE srv
    ELSE IF ok /\ tl # <<>>
         THEN [srv EXCEPT !.tools = tl, !.status = "connected", !.error_message = ""]
         ELSE [srv EXCEPT !.status = "disconnected",
                          !.error_message = "verification failed"]

\* The status check at the head of call_server_method.
CallableStatuses(srv) ==
    IF srv.transport_type = "stdio" THEN {"running"} ELSE {"connected", "running"}

(***************************************************************************)
(* Proxy manager (core/mcp_proxy.py).                                      *)
(***************************************************************************)
\* McpProxyInstance with the fields the operations read: status, tools and,
\* of its McpProxyConfig, server_name and exposed_tools.  (error_message is
\* only ever written; config.auto_start is read by _auto_start_proxies alone
\* and is an input of that action.)
NoProxy == [present |-> FALSE, server_name |-> "notion", exposed_tools |-> <<>>,
            status |-> "stopped", tools |-> <<>>]

McpProxyInstance(sn, exposed) ==
    [present |-> TRUE, server_name |-> sn, exposed_tools |-> exposed,
     status |-> "stopped", tools |-> <<>>]

ValidStatuses(srv) ==
    IF srv.transport_type = "stdio"
    THEN {"running", "verified"}
    ELSE {"connected", "running", "verified"}

\* The exposed_tools filter of update_proxy_tools.
FilterTools(tools, exposed) ==
    IF exposed # <<>>
    THEN SelectSeq(tools, LAMBDA t : t \in Range(exposed))
    ELSE tools

\* update_proxy_tools(name) on proxy record prx with its target server srv;
\* returns the new proxy record.  (server.tools is non-empty where the
\* adapter branch would start, so that branch is never taken.)
update_proxy_tools(prx, srv) ==
    IF ~srv.present
    THEN [prx EXCEPT !.status = "error"]
    ELSE IF srv.status \notin ValidStatuses(srv)
         THEN [prx EXCEPT !.status = "error"]
         ELSE IF srv.tools = <<>>
              THEN [prx EXCEPT !.status = "error"]
              ELSE [prx EXCEPT !.tools = FilterTools(srv.tools, prx.exposed_tools),
                               !.status = "running"]

TargetOf(prx) == IF prx.server_name \in ServerNames
                 THEN servers[prx.server_name] ELSE NoServer

\* _auto_start_proxies, one proxy: returns the new proxy record.
auto_start_proxy(prx, srv, auto) ==
    IF ~auto THEN prx
    ELSE IF ~srv.present
         THEN [prx EXCEPT !.status = "error"]
         ELSE IF srv.status \in ValidStatuses(srv)
              THEN [prx EXCEPT !.status = "running",
                               !.tools = IF srv.tools # <<>> THEN srv.tools ELSE @]
              ELSE [prx EXCEPT !.status = "error"]

\* Does _auto_start_proxies schedule a _delayed_proxy_tool_update for prx?
SchedulesDelayed(prx, srv, auto) ==
    /\ prx.present /\ auto
    /\ srv.present /\ srv.status \in ValidStatuses(srv) /\ srv.tools = <<>>

\* The auto-recovery block shared by handle_proxy_warmup and
\* handle_proxy_request: srv is the server after get_server_status has
\* coalesced its status, ok the statuses the handler accepts.
auto_recover(prx, srv, ok) ==
    IF prx.status # "running" /\ srv.present /\ srv.status \in ok
    THEN [prx EXCEPT !.status = "running",
                     !.tools = IF srv.tools # <<>> THEN srv.tools ELSE @]
    ELSE prx

WarmupStatuses == {"connected", "running", "verified"}
PostStatuses == {"running", "verified"}

\* The servers map after a handler has read the status of server sn.
ReadStatus(sn) ==
    IF servers[sn].present
    THEN [servers EXCEPT ![sn] = get_server_status(@)]
    ELSE servers

(***************************************************************************)
(* tools/call dispatch.                                                    *)
(***************************************************************************)
CodeOk == 0
MethodNotFound == -32601
InvalidParams == -32602
InternalError == -32603
HttpError == 404

\* McpProxyManager.proxy_request for a tools/call: prx/srv are the proxy and
\* its target as the call finds them, up the upstream's outcome.
\* raised = a ValueError leaves proxy_request.
proxy_request(prx, srv, tool, up) ==
    IF ~prx.present \/ ~srv.present
    THEN [raised |-> TRUE, code |-> InternalError, forwarded |-> FALSE]
    ELSE IF srv.status \notin CallableStatuses(srv)
         THEN [raised |-> FALSE, code |-> InternalError, forwarded |-> FALSE]
         ELSE [raised |-> FALSE, code |-> IF up THEN CodeOk ELSE InternalError,
               forwarded |-> TRUE]

\* handle_tool_call_request (api/routes/dynamic_proxy.py).
handle_tool_call_request(prx, srv, tool, up) ==
    IF tool = ""
    THEN [code |-> InvalidParams, forwarded |-> FALSE]
    ELSE LET r == proxy_request(prx, srv, tool, up)
         IN  [code |-> r.code, forwarded |-> r.forwarded]

\* SSESessionManager._handle_tool_call.
handle_tool_call(prx, srv, tool, up) ==
    LET r == proxy_request(prx, srv, tool, up)
    IN  [code |-> r.code, forwarded |-> r.forwarded]

\* The /api/proxy/{name}/call route: a ValueError becomes HTTP 404.
proxy_call(prx, srv, tool, up) ==
    LET r == proxy_request(prx, srv, tool, up)
    IN  [code |-> IF r.raised THEN HttpError ELSE r.code, forwarded |-> r.forwarded]

NoReq == [entry |-> "none", proxy |-> "P", tool |-> "", exposed |-> <<>>,
          code |-> CodeOk, forwarded |-> FALSE]

Answer(entry, p, prx, tool, r) ==
    [entry |-> entry, proxy |-> p, tool |-> tool, exposed |-> prx.exposed_tools,
     code |-> r.code, forwarded |-> r.forwarded]

StreamError == -32000

\* McpProxyManager.proxy_request for a tools/list: the cached list, unless
\* the proxy or its target is missing (a ValueError is raised).
proxy_request_tools_list(prx, srv) ==
    IF ~prx.present \/ ~srv.present
    THEN [raised |-> TRUE, code |-> InternalError, tools |-> <<>>, contacted |-> FALSE]
    ELSE [raised |-> FALSE, code |-> CodeOk, tools |-> prx.tools, contacted |-> FALSE]

\* handle_tools_list_request (api/routes/dynamic_proxy.py).
handle_tools_list_request(prx) ==
    IF ~prx.present
    THEN [code |-> InternalError, tools |-> <<>>, contacted |-> FALSE]
    ELSE [code |-> CodeOk, tools |-> prx.tools, contacted |-> FALSE]

\* SSESessionManager._handle_tools_list.
handle_tools_list(prx) ==
    [code |-> CodeOk, tools |-> IF prx.present THEN prx.tools ELSE <<>>,
     contacted |-> FALSE]

\* _process_stream_request for a tools/list: the method name is looked up
\* in exposed_tools before the special case is reached.
process_stream_request_tools_list(prx) ==
    IF prx.exposed_tools # <<>> /\ "tools/list" \notin Range(prx.exposed_tools)
    THEN [code |-> MethodNotFound, tools |-> <<>>]
    ELSE [code |-> CodeOk, tools |-> prx.tools]

\* create_proxy_stream for a tools/list: a backend session is opened on the
\* target server (up = it could be opened) and the request processed in it.
create_proxy_stream_tools_list(prx, srv, up) ==
    IF ~prx.present \/ ~srv.present
    THEN [code |-> StreamError, tools |-> <<>>, contacted |-> FALSE]
    ELSE IF ~up
         THEN [code |-> InternalError, tools |-> <<>>, contacted |-> TRUE]
         ELSE [code |-> process_stream_request_tools_list(prx).code,
               tools |-> process_stream_request_tools_list(prx).tools,
               contacted |-> TRUE]

\* The answer to a tools/list as an entry gave it: the list returned next to
\* the list the proxy had cached.
ListAnswer(entry, p, prx, r) ==
    [entry |-> entry, proxy |-> p, tool |-> "", exposed |-> prx.exposed_tools,
     code |-> r.code, forwarded |-> r.contacted, method |-> "tools/list",
     tools |-> r.tools, cached |-> prx.tools]

(***************************************************************************)
(* Actions of the service manager.                                         *)
(***************************************************************************)
ProxyFrame == UNCHANGED sessVars

add_server(s, tt) ==
    /\ ~servers[s].present
    /\ servers' = [servers EXCEPT ![s] = McpServerInstance(tt)]
    /\ UNCHANGED <<proxies, initialized, delayed, restarting, lastReq>>
    /\ ProxyFrame

remove_server(s) ==
    /\ servers[s].present
    /\ servers' = [servers EXCEPT ![s] = NoServer]
    /\ UNCHANGED <<proxies, initialized, delayed, restarting, lastReq>>
    /\ ProxyFrame

StartServer(s) ==
    /\ servers[s].present
    /\ servers' = [servers EXCEPT ![s] = start_server(@)]
    /\ UNCHANGED <<proxies, initialized, delayed, restarting, lastReq>>
    /\ ProxyFrame

StopServer(s) ==
    /\ servers[s].present
    /\ servers' = [servers EXCEPT ![s] = stop_server(@)]
    /\ UNCHANGED <<proxies, initialized, delayed, restarting, lastReq>>
    /\ ProxyFrame

VerifyWith(s, ok, tl) ==
    /\ servers[s].present
    /\ servers' = [servers EXCEPT ![s] = verify_mcp_server(@, ok, tl)]
    /\ UNCHANGED <<proxies, initialized, delayed, restarting, lastReq>>
    /\ ProxyFrame

VerifyServer(s) == \E ok \in BOOLEAN, tl \in UpstreamToolLists : VerifyWith(s, ok, tl)

(***************************************************************************)
(* Actions of the proxy manager and its routes (api/routes/proxy.py).      *)
(***************************************************************************)
\* McpProxyManager.initialize -> _auto_start_proxies; auto is the set of
\* proxies whose configuration says auto_start.
initialize(auto) ==
    /\ ~initialized
    /\ initialized' = TRUE
    /\ proxies' = [p \in ProxyNames |->
                     IF proxies[p].present
                     THEN auto_start_proxy(proxies[p], TargetOf(proxies[p]), p \in auto)
                     ELSE proxies[p]]
    /\ delayed' = [p \in ProxyNames |->
                     SchedulesDelayed(proxies[p], TargetOf(proxies[p]), p \in auto)]
    /\ UNCHANGED <<servers, restarting, lastReq>>
    /\ ProxyFrame

\* _delayed_proxy_tool_update from the attempt that ends it: the attempt
\* that finds the proxy or the server gone, the first one that finds a tool
\* list (copied as it is), or the last of max_retries.  The attempts before
\* it found no tool list and changed nothing.
delayed_proxy_tool_update(p) ==
    /\ delayed[p]
    /\ delayed' = [delayed EXCEPT ![p] = FALSE]
    /\ LET prx == proxies[p]
           srv == TargetOf(prx)
       IN  proxies' = IF prx.present /\ srv.present /\ srv.tools # <<>>
                      THEN [proxies EXCEPT ![p].tools = srv.tools]
                      ELSE proxies
    /\ UNCHANGED <<servers, initialized, restarting, lastReq>>
    /\ ProxyFrame

\* A restart_proxy that sleeps while its instance is replaced or deleted
\* wakes up holding the old object: its status write is lost and what is
\* left of it is update_proxy_tools(name), the step update_tools_route takes.
\* The names in gone stop counting as restarting.
Orphan(gone) == [q \in ProxyNames |-> IF q \in gone THEN FALSE ELSE restarting[q]]

\* POST /api/proxy/ : add_proxy, then start it when the server reads running.
create_proxy(p, sn, exposed) ==
    /\ initialized
    /\ ~proxies[p].present
    /\ LET svs == ReadStatus(sn)
           new == McpProxyInstance(sn, exposed)
       IN  /\ servers' = svs
           /\ proxies' = [proxies EXCEPT ![p] =
                            IF svs[sn].present /\ svs[sn].status = "running"
                            THEN update_proxy_tools([new EXCEPT !.status = "running"],
                                                    svs[sn])
                            ELSE new]
    /\ UNCHANGED <<initialized, delayed, restarting, lastReq>>
    /\ ProxyFrame

\* McpProxyManager.update_proxy: the entry under the new name is replaced.
update_proxy(prxs, name, newname, cfg) ==
    [q \in ProxyNames |->
        IF q = newname THEN cfg
        ELSE IF q = name THEN NoProxy
        ELSE prxs[q]]

\* PUT /api/proxy/{name} : update_proxy, then update_proxy_tools(new name).
update_proxy_route(p, newname, exposed) ==
    /\ initialized
    /\ proxies[p].present
    /\ LET cfg == McpProxyInstance(proxies[p].server_name, exposed)
           upd == update_proxy(proxies, p, newname, cfg)
       IN  proxies' = [upd EXCEPT ![newname] = update_proxy_tools(@, TargetOf(cfg))]
    /\ restarting' = Orphan({p, newname})
    /\ UNCHANGED <<servers, initialized, delayed, lastReq>>
    /\ ProxyFrame

\* DELETE /api/proxy/{name}.
delete_proxy(p) ==
    /\ initialized
    /\ proxies[p].present
    /\ proxies' = [proxies EXCEPT ![p] = NoProxy]
    /\ restarting' = Orphan({p})
    /\ UNCHANGED <<servers, initialized, delayed, lastReq>>
    /\ ProxyFrame

\* POST /api/proxy/{name}/update-tools.
update_tools_route(p) ==
    /\ initialized
    /\ proxies[p].present
    /\ proxies' = [proxies EXCEPT ![p] = update_proxy_tools(@, TargetOf(@))]
    /\ UNCHANGED <<servers, initialized, delayed, restarting, lastReq>>
    /\ ProxyFrame

\* POST /api/proxy/{name}/force-update: the server's list is copied as it is
\* and the proxy is set running whatever the server's state.
force_update_proxy(p) ==
    /\ initialized
    /\ proxies[p].present
    /\ LET sn == proxies[p].server_name
           svs == ReadStatus(sn)
       IN  /\ servers' = svs
           /\ proxies' = [proxies EXCEPT ![p].tools =
                                IF svs[sn].present THEN svs[sn].tools ELSE <<>>,
                                         ![p].status = "running"]
    /\ UNCHANGED <<initialized, delayed, restarting, lastReq>>
    /\ ProxyFrame

\* The upstream check start_proxy and restart_proxy share: srv is the server
\* after get_server_status ("error" is a key of the status when the server
\* is missing or carries an error_message).
UpstreamAccepted(srv) ==
    /\ srv.present
    /\ srv.error_message = ""
    /\ srv.status \in ValidStatuses(srv)

\* POST /api/proxy/{name}/start.
start_proxy(p) ==
    /\ initialized
    /\ proxies[p].present
    /\ proxies[p].status # "running"
    /\ LET sn == proxies[p].server_name
           svs == ReadStatus(sn)
       IN  /\ servers' = svs
           /\ proxies' = IF UpstreamAccepted(svs[sn])
                         THEN [proxies EXCEPT ![p] =
                                 update_proxy_tools([@ EXCEPT !.status = "running"],
                                                    svs[sn])]
                         ELSE proxies
    /\ UNCHANGED <<initialized, delayed, restarting, lastReq>>
    /\ ProxyFrame

\* POST /api/proxy/{name}/stop.
stop_proxy(p) ==
    /\ initialized
    /\ proxies[p].present
    /\ proxies[p].status # "stopped"
    /\ proxies' = [proxies EXCEPT ![p].status = "stopped",
                                  ![p].tools = <<>>]
    /\ UNCHANGED <<servers, initialized, delayed, restarting, lastReq>>
    /\ ProxyFrame

\* POST /api/proxy/{name}/restart, up to its asyncio.sleep(0.5).
restart_proxy_begin(p) ==
    /\ initialized
    /\ proxies[p].present
    /\ ~restarting[p]
    /\ Cardinality({q \in ProxyNames : restarting[q]}) < MaxRestarts
    /\ LET sn == proxies[p].server_name
           svs == ReadStatus(sn)
       IN  /\ servers' = svs
           /\ IF UpstreamAccepted(svs[sn])
              THEN /\ proxies' = [proxies EXCEPT ![p].status = "stopped",
                                                 ![p].tools = <<>>]
                   /\ restarting' = [restarting EXCEPT ![p] = TRUE]
              ELSE UNCHANGED <<proxies, restarting>>
    /\ UNCHANGED <<initialized, delayed, lastReq>>
    /\ ProxyFrame

\* restart_proxy after the sleep: status running, then update_proxy_tools.
restart_proxy_finish(p) ==
    /\ restarting[p]
    /\ restarting' = [restarting EXCEPT ![p] = FALSE]
    /\ proxies' = [proxies EXCEPT ![p] =
                     update_proxy_tools([@ EXCEPT !.status = "running"], TargetOf(@))]
    /\ UNCHANGED <<servers, initialized, delayed, lastReq>>
    /\ ProxyFrame

(***************************************************************************)
(* SSE session engine (core/sse_session_manager.py).                       *)
(***************************************************************************)
\* RateLimitConfig as loaded from rate_limit.config.json; the file of this
\* model sets the three counts low and keeps the defaults of the rest.
max_sessions_per_client == 1
max_sessions_per_proxy == 3
session_creation_window == 60
burst_allowance == 2
adaptive_scaling == TRUE

cache_ttl == 5
BurstIdleSeconds == 30
violation_history_limit == 100
violation_window == 3600
message_timeout == 30

\* SSESession; owner is the stream whose register_session call made it.
SSESession(p, c, t, k) ==
    [proxy_name |-> p, client_host |-> c, created_at |-> t, last_activity |-> t,
     is_initialized |-> FALSE, pending_messages |-> <<>>, owner |-> k]

PendingMessage(m, t) == [message |-> m, timestamp |-> t, timeout |-> message_timeout]

NoCache == [present |-> FALSE, time |-> 0, allowed |-> FALSE]

RECURSIVE SeqMax(_)
SeqMax(s) == IF s = <<>> THEN 0 ELSE Max2(Head(s), SeqMax(Tail(s)))

LastN(s, n) == IF Len(s) > n THEN SubSeq(s, Len(s) - n + 1, Len(s)) ELSE s

\* _calculate_violation_severity (limit * 1.5 as 2 * sessions > 3 * limit).
calculate_violation_severity(violation_type, n, limit) ==
    IF violation_type = "client_limit"
    THEN IF n > limit * 2 THEN "critical"
         ELSE IF 2 * n > 3 * limit THEN "high"
         ELSE IF 5 * n > 6 * limit THEN "medium"
         ELSE "low"
    ELSE IF 2 * n > 3 * limit THEN "critical"
         ELSE IF 5 * n > 6 * limit THEN "high"
         ELSE "medium"

\* _record_rate_limit_violation: the new violation history.
record_rate_limit_violation(viol, t, c, p, violation_type, n, limit) ==
    LET rec == [timestamp |-> t, proxy_name |-> p, violation_type |-> violation_type,
                severity |-> calculate_violation_severity(violation_type, n, limit)]
        kept == SelectSeq(Append(viol[c], rec),
                          LAMBDA v : v.timestamp > t - violation_window)
    IN  [viol EXCEPT ![c] = LastN(kept, violation_history_limit)]

\* The per-client limit _check_rate_limits applies to history cs at time t.
effective_client_limit(cs, t) ==
    IF adaptive_scaling /\ Len(cs) > 0 /\ t - SeqMax(cs) > BurstIdleSeconds
    THEN max_sessions_per_client + burst_allowance
    ELSE max_sessions_per_client

ProxySessionCount(sess, p) ==
    Cardinality({sid \in DOMAIN sess : sess[sid].proxy_name = p})

\* _check_rate_limits(proxy_name, client_host) at time t: the verdict and the
\* history, cache and violation maps it leaves.
check_rate_limits(sess, hist, cch, viol, t, p, c) ==
    LET key == <<c, p>>
        cutoff == t - session_creation_window
        pruned == [cl \in ClientHosts |-> SelectSeq(hist[cl], LAMBDA x : x > cutoff)]
        cs == pruned[c]
        limit == effective_client_limit(cs, t)
        pcount == ProxySessionCount(sess, p)
        put(a) == [cch EXCEPT ![key] = [present |-> TRUE, time |-> t, allowed |-> a]]
    IN  IF cch[key].present /\ t - cch[key].time < cache_ttl
        THEN [allowed |-> cch[key].allowed, cached |-> TRUE,
              history |-> hist, cache |-> cch, violations |-> viol]
        ELSE IF Len(cs) >= limit
        THEN [allowed |-> FALSE, cached |-> FALSE,
              history |-> pruned, cache |-> put(FALSE),
              violations |-> record_rate_limit_violation(viol, t, c, p,
                                   "client_limit", Len(cs), limit)]
        ELSE IF pcount >= max_sessions_per_proxy
        THEN [allowed |-> FALSE, cached |-> FALSE,
              history |-> pruned, cache |-> put(FALSE),
              violations |-> record_rate_limit_violation(viol, t, c, p,
                                   "proxy_limit", pcount, max_sessions_per_proxy)]
        ELSE [allowed |-> TRUE, cached |-> FALSE,
              history |-> pruned, cache |-> put(TRUE), violations |-> viol]

Without(sess, sid) == [x \in DOMAIN sess \ {sid} |-> sess[x]]

\* A register_session that notes the time of a denied attempt in the
\* client's creation history.
register_session_records_denied(sess, hist, cch, viol, t, sid, p, c, k) ==
    LET r == check_rate_limits(sess, hist, cch, viol, t, p, c)
    IN  IF ~r.allowed
        THEN [ok |-> FALSE, sessions |-> sess,
              history |-> [r.history EXCEPT ![c] = Append(@, t)],
              cache |-> r.cache, violations |-> r.violations]
        ELSE [ok |-> TRUE,
              sessions |-> (sid :> SSESession(p, c, t, k)) @@ sess,
              history |-> [r.history EXCEPT ![c] = Append(@, t)],
              cache |-> r.cache, violations |-> r.violations]

\* register_session(session_id, proxy_name, client_host) by stream k.
register_session(sess, hist, cch, viol, t, sid, p, c, k) ==
    LET r == check_rate_limits(sess, hist, cch, viol, t, p, c)
    IN  IF ~r.allowed
        THEN [ok |-> FALSE, sessions |-> sess, history |-> r.history,
              cache |-> r.cache, violations |-> r.violations]
        ELSE [ok |-> TRUE,
              sessions |-> (sid :> SSESession(p, c, t, k)) @@ sess,
              history |-> [r.history EXCEPT ![c] = Append(@, t)],
              cache |-> r.cache, violations |-> r.violations]

\* An unregister_session that logs and leaves the map as it is.
unregister_session_keeps(sess, sid) == sess

\* unregister_session(session_id).
unregister_session(sess, sid) ==
    IF sid \in DOMAIN sess THEN Without(sess, sid) ELSE sess

\* add_message(session_id, message, priority) at time t.
add_message(sess, sid, m, priority, t) ==
    IF sid \in DOMAIN sess
    THEN [sess EXCEPT ![sid].pending_messages =
                          IF priority THEN <<PendingMessage(m, t)>> \o @
                          ELSE Append(@, PendingMessage(m, t)),
                      ![sid].last_activity = t]
    ELSE sess

\* Is a pending message expired at time t?
\* An expiry test that also drops a message of age exactly its timeout.
MessageExpiredAtTimeout(pm, t) == t - pm.timestamp >= pm.timeout

\* The expiry test of get_pending_messages.
MessageExpired(pm, t) == t - pm.timestamp > pm.timeout

\* get_pending_messages(session_id) at time t: the messages returned and the
\* session map left.
get_pending_messages(sess, sid, t) ==
    IF sid \notin DOMAIN sess
    THEN [messages |-> <<>>, sessions |-> sess]
    ELSE LET live == SelectSeq(sess[sid].pending_messages,
                               LAMBDA pm : ~MessageExpired(pm, t))
             msgs == [i \in 1..Len(live) |-> live[i].message]
         IN  [messages |-> msgs,
              sessions |-> [sess EXCEPT ![sid].pending_messages = <<>>,
                                        ![sid].last_activity =
                                            IF msgs # <<>> THEN t ELSE @]]

\* get_sessions_by_proxy.
get_sessions_by_proxy(sess, p) == {sid \in DOMAIN sess : sess[sid].proxy_name = p}

RECURSIVE AddToAll(_, _, _, _)
AddToAll(sess, sids, m, t) ==
    IF sids = {} THEN sess
    ELSE LET sid == CHOOSE x \in sids : TRUE
         IN  AddToAll(add_message(sess, sid, m, FALSE, t), sids \ {sid}, m, t)

\* smart_cleanup_sessions: thresholds by load, then the four expiry tests.
session_timeout == 300
InitializationTimeout == 60
LoadHigh == 100
LoadMedium == 50

activity_threshold(total) ==
    IF total > LoadHigh THEN session_timeout \div 2
    ELSE IF total > LoadMedium THEN (session_timeout * 3) \div 4
    ELSE session_timeout

PendingLimit == 100
PendingLimitHigh == 50
PendingLimitMedium == 75

max_pending_messages(total) ==
    IF total > LoadHigh THEN PendingLimitHigh
    ELSE IF total > LoadMedium THEN PendingLimitMedium
    ELSE PendingLimit

\* An expiry test without the initialization timeout.
should_expire_initialized(ses, t, total) ==
    \/ t - ses.last_activity > activity_threshold(total)
    \/ t - ses.created_at > session_timeout * 3
    \/ Len(ses.pending_messages) > max_pending_messages(total)

\* The expiry tests of smart_cleanup_sessions for one session.
should_expire(ses, t, total) ==
    \/ t - ses.last_activity > activity_threshold(total)
    \/ t - ses.created_at > session_timeout * 3
    \/ Len(ses.pending_messages) > max_pending_messages(total)
    \/ ~ses.is_initialized /\ t - ses.created_at > InitializationTimeout

expired_sessions(sess, t) ==
    {sid \in DOMAIN sess : should_expire(sess[sid], t, Cardinality(DOMAIN sess))}

smart_cleanup_sessions(sess, t) ==
    [x \in DOMAIN sess \ expired_sessions(sess, t) |-> sess[x]]

\* The streams whose sessions leave the map between sess and after.
Gone(sess, after) ==
    {sess[sid].owner : sid \in {x \in DOMAIN sess :
                                   x \notin DOMAIN after \/ after[x].owner # sess[x].owner}}

Count(after) == [k \in SessionIds |-> IF k \in Gone(sessions, after)
                                      THEN removals[k] + 1 ELSE removals[k]]

(***************************************************************************)
(* Actions of the session engine and of the SSE streams.                   *)
(***************************************************************************)
SessionFrame ==
    UNCHANGED <<servers, proxies, initialized, delayed, restarting, retry, call>>

\* What register_session is asked, as the claims on rate limits read it.
Asked(p, c, r) ==
    LET recent == SelectSeq(history[c], LAMBDA x : x > now - session_creation_window)
    IN  [valid |-> TRUE, client |-> c, proxy |-> p, count |-> Len(recent),
         burst |-> effective_client_limit(recent, now) > max_sessions_per_client,
         onproxy |-> ProxySessionCount(sessions, p),
         allowed |-> r.ok,
         recorded |-> IF r.violations[c] = violations[c] THEN "none"
                      ELSE r.violations[c][Len(r.violations[c])].violation_type,
         severity |-> IF r.violations[c] = violations[c] THEN "none"
                      ELSE r.violations[c][Len(r.violations[c])].severity]

\* GET /{proxy} with Accept: text/event-stream answered with the stream, and
\* mcp_sse_stream up to its first yield: register_session under the id the
\* client sent or a fresh uuid (the stream's own number).
mcp_sse_stream_open(k, sid, p, c) ==
    /\ initialized
    /\ proxies[p].present /\ proxies[p].status = "running"
    /\ k = nextSid
    /\ nextSid' = k + 1
    /\ LET r == register_session(sessions, history, cache, violations, now, sid, p, c, k)
       IN  /\ sessions' = r.sessions
           /\ history' = r.history
           /\ cache' = r.cache
           /\ violations' = r.violations
           /\ lastReg' = Asked(p, c, r)
           /\ removals' = Count(r.sessions)
           /\ streams' = [streams EXCEPT ![k] =
                            [pos |-> IF r.ok THEN "open" ELSE "denied", sid |-> sid,
                             registered |-> r.ok, out |-> <<>>, by |-> "none"]]
    /\ UNCHANGED <<now, cleaned, delivered, lastDrain, nextMsg, inflight, lastReq>>
    /\ SessionFrame

\* The loop of mcp_sse_stream: get_pending_messages when nothing is left to
\* yield; with no message to send the stream sleeps one second ("idle").
mcp_sse_stream_poll(k) ==
    /\ streams[k].pos = "open"
    /\ streams[k].out = <<>>
    /\ LET r == get_pending_messages(sessions, streams[k].sid, now)
       IN  /\ sessions' = r.sessions
           /\ streams' = [streams EXCEPT ![k].out = r.messages,
                                         ![k].pos = IF r.messages = <<>> THEN "idle"
                                                    ELSE "open"]
           /\ lastDrain' = IF r.sessions = sessions THEN lastDrain
                            ELSE [valid |-> TRUE, at |-> now,
                                  queue |-> sessions[streams[k].sid].pending_messages,
                                  messages |-> r.messages]
    /\ UNCHANGED <<now, history, cache, violations, nextSid, lastReg, removals,
                   cleaned, delivered, nextMsg, inflight, lastReq>>
    /\ SessionFrame

\* One "event: message" frame written to the client.
mcp_sse_stream_yield(k) ==
    /\ streams[k].pos = "open"
    /\ streams[k].out # <<>>
    /\ delivered' = [delivered EXCEPT ![k] = Append(@, Head(streams[k].out))]
    /\ streams' = [streams EXCEPT ![k].out = Tail(@)]
    /\ UNCHANGED <<now, sessions, history, cache, violations, nextSid, lastReg,
                   removals, cleaned, lastDrain, nextMsg, inflight, lastReq>>
    /\ SessionFrame

\* The stream after its sleep: session_manager.get_adaptive_heartbeat_interval
\* is looked up, SSESessionManager has no attribute of that name, the
\* AttributeError leaves the loop and the finally block runs.
mcp_sse_stream_heartbeat(k) ==
    /\ streams[k].pos = "idle"
    /\ sessions' = unregister_session(sessions, streams[k].sid)
    /\ removals' = Count(unregister_session(sessions, streams[k].sid))
    /\ streams' = [streams EXCEPT ![k].pos = "closed", ![k].out = <<>>,
                                  ![k].by = "error"]
    /\ UNCHANGED <<now, history, cache, violations, nextSid, lastReg, cleaned,
                   delivered, lastDrain, nextMsg, inflight, lastReq>>
    /\ SessionFrame

\* The stream ends (the denied stream returns; the client disconnects and
\* the task is cancelled): the finally block.
mcp_sse_stream_finally(k) ==
    /\ streams[k].pos \in {"open", "idle", "denied"}
    /\ sessions' = unregister_session(sessions, streams[k].sid)
    /\ removals' = Count(unregister_session(sessions, streams[k].sid))
    /\ streams' = [streams EXCEPT ![k].pos = "closed", ![k].out = <<>>,
                                  ![k].by = IF streams[k].pos = "denied" THEN "return"
                                            ELSE "client"]
    /\ UNCHANGED <<now, history, cache, violations, nextSid, lastReg, cleaned,
                   delivered, lastDrain, nextMsg, inflight, lastReq>>
    /\ SessionFrame

\* _cleanup_loop, one round (the streams run the same call every 60 polls).
cleanup_expired_sessions ==
    /\ sessions' = smart_cleanup_sessions(sessions, now)
    /\ removals' = Count(smart_cleanup_sessions(sessions, now))
    /\ cleaned' = cleaned \cup Gone(sessions, smart_cleanup_sessions(sessions, now))
    /\ UNCHANGED <<now, history, cache, violations, streams, nextSid, lastReg,
                   delivered, lastDrain, nextMsg, inflight, lastReq>>
    /\ SessionFrame

\* A response or notification as the queue carries it: the JSON-RPC id the
\* client chose and the way it was enqueued.
Message(id, priority) == [id |-> id, priority |-> priority]

Touch(sess, sid, t) == [sess EXCEPT ![sid].last_activity = t]

\* POST /messages?sessionId= with an initialize request:
\* handle_sse_message (handle_initialize_request does not suspend).
handle_sse_message_initialize(sid, p, id) ==
    /\ initialized
    /\ sid \in DOMAIN sessions
    /\ LET got == Touch(sessions, sid, now)
       IN  sessions' = IF got[sid].proxy_name # p THEN got
                       ELSE add_message([got EXCEPT ![sid].is_initialized = TRUE],
                                        sid, Message(id, TRUE), TRUE, now)
    /\ nextMsg' = IF sessions[sid].proxy_name # p THEN nextMsg ELSE Max2(nextMsg, id + 1)
    /\ UNCHANGED <<now, history, cache, violations, streams, nextSid, lastReg,
                   removals, cleaned, delivered, lastDrain, inflight, lastReq>>
    /\ SessionFrame

\* The same POST with a tools/call, up to the await of the upstream (or to
\* its end when nothing is forwarded).
handle_sse_message_call(sid, p, id, tool, up) ==
    /\ initialized
    /\ sid \in DOMAIN sessions
    /\ LET got == Touch(sessions, sid, now)
           prx == proxies[p]
           r == handle_tool_call_request(prx, TargetOf(prx), tool, up)
       IN  IF got[sid].proxy_name # p
           THEN /\ sessions' = got
                /\ UNCHANGED <<nextMsg, inflight, lastReq>>
           ELSE /\ lastReq' = Answer("sse_post", p, prx, tool, r)
                /\ nextMsg' = Max2(nextMsg, id + 1)
                /\ IF r.forwarded
                   THEN /\ inflight' = inflight \cup {[sid |-> sid, id |-> id]}
                        /\ sessions' = got
                   ELSE /\ sessions' = add_message(got, sid, Message(id, TRUE), TRUE, now)
                        /\ UNCHANGED inflight
    /\ UNCHANGED <<now, history, cache, violations, streams, nextSid, lastReg,
                   removals, cleaned, delivered, lastDrain>>
    /\ SessionFrame

\* handle_sse_message after the upstream has answered: the response is
\* enqueued for whatever session carries the id now, and 202 returned.
handle_sse_message_enqueue(req) ==
    /\ req \in inflight
    /\ inflight' = inflight \ {req}
    /\ sessions' = add_message(sessions, req.sid, Message(req.id, TRUE), TRUE, now)
    /\ UNCHANGED <<now, history, cache, violations, streams, nextSid, lastReg,
                   removals, cleaned, delivered, lastDrain, nextMsg, lastReq>>
    /\ SessionFrame

\* SSESessionManager.handle_mcp_message with an initialize, a tools/list or
\* a tools/call.
handle_mcp_message(sid, method, tool, up) ==
    /\ initialized
    /\ sid \in DOMAIN sessions
    /\ LET got == Touch(sessions, sid, now)
           p == sessions[sid].proxy_name
           prx == proxies[p]
       IN  /\ sessions' = IF method = "initialize"
                          THEN [got EXCEPT ![sid].is_initialized = TRUE] ELSE got
           /\ lastReq' = IF method = "tools/call"
                         THEN Answer("session_engine", p, prx, tool,
                                     handle_tool_call(prx, TargetOf(prx), tool, up))
                         ELSE IF method = "tools/list"
                         THEN ListAnswer("session_engine", p, prx, handle_tools_list(prx))
                         ELSE lastReq
    /\ UNCHANGED <<now, history, cache, violations, streams, nextSid, lastReg,
                   removals, cleaned, delivered, lastDrain, nextMsg, inflight>>
    /\ SessionFrame

\* broadcast_to_proxy(proxy_name, message).
broadcast_to_proxy(p, id) ==
    /\ sessions' = AddToAll(sessions, get_sessions_by_proxy(sessions, p),
                            Message(id, FALSE), now)
    /\ nextMsg' = Max2(nextMsg, id + 1)
    /\ UNCHANGED <<now, history, cache, violations, streams, nextSid, lastReg,
                   removals, cleaned, delivered, lastDrain, inflight, lastReq>>
    /\ SessionFrame

\* time.time() moves on by d, up to last.
Tick(d, last) ==
    /\ now + d <= last
    /\ now' = now + d
    /\ UNCHANGED <<sessions, history, cache, violations, streams, nextSid, lastReg,
                   removals, cleaned, delivered, lastDrain, nextMsg, inflight, lastReq>>
    /\ SessionFrame

(***************************************************************************)
(* Client requests on the dynamic routes (api/routes/dynamic_proxy.py).    *)
(***************************************************************************)
\* The servers map after the recovery block of a handler has run for prx.
RecoveryRead(prx) ==
    IF prx.status # "running" /\ prx.server_name \in ServerNames
    THEN ReadStatus(prx.server_name) ELSE servers

\* GET /{proxy}: handle_proxy_warmup up to its answer (JSON warm-up or the
\* StreamingResponse whose generator runs later).
handle_proxy_warmup(p) ==
    /\ initialized
    /\ proxies[p].present
    /\ LET prx == proxies[p]
           svs == RecoveryRead(prx)
       IN  /\ servers' = svs
           /\ proxies' = [proxies EXCEPT ![p] =
                            auto_recover(prx, svs[prx.server_name], WarmupStatuses)]
    /\ UNCHANGED <<initialized, delayed, restarting, lastReq>>
    /\ ProxyFrame

\* POST /{proxy}: handle_proxy_request for a tools/call, a tools/list or a
\* resources/list (which is answered with the constant empty list).
handle_proxy_request(p, method, tool, up) ==
    /\ initialized
    /\ proxies[p].present
    /\ LET prx == proxies[p]
           svs == RecoveryRead(prx)
           rec == auto_recover(prx, svs[prx.server_name], PostStatuses)
       IN  /\ servers' = svs
           /\ proxies' = [proxies EXCEPT ![p] = rec]
           /\ lastReq' = IF rec.status = "running" /\ method = "tools/call"
                         THEN Answer("jsonrpc_post", p, rec, tool,
                                     handle_tool_call_request(rec, svs[rec.server_name],
                                                              tool, up))
                         ELSE IF rec.status = "running" /\ method = "tools/list"
                         THEN ListAnswer("jsonrpc_post", p, rec,
                                         handle_tools_list_request(rec))
                         ELSE lastReq
    /\ UNCHANGED <<initialized, delayed, restarting>>
    /\ ProxyFrame

\* POST /api/proxy/{name}/call with a tools/call.
proxy_call_route(p, tool, up) ==
    /\ initialized
    /\ lastReq' = Answer("proxy_request", p, proxies[p], tool,
                         proxy_call(proxies[p], TargetOf(proxies[p]), tool, up))
    /\ UNCHANGED <<servers, proxies, initialized, delayed, restarting>>
    /\ ProxyFrame

\* POST /api/proxy/endpoint/{name} with a tools/call: mcp_endpoint (an
\* exception of proxy_request is answered as -32603).
mcp_endpoint(p, tool, up) ==
    /\ initialized
    /\ proxies[p].present /\ proxies[p].status = "running"
    /\ LET r == proxy_request(proxies[p], TargetOf(proxies[p]), tool, up)
       IN  lastReq' = Answer("mcp_endpoint", p, proxies[p], tool,
                             [code |-> r.code, forwarded |-> r.forwarded])
    /\ UNCHANGED <<servers, proxies, initialized, delayed, restarting>>
    /\ ProxyFrame

\* POST /{proxy}?stream=true with a tools/list: handle_proxy_request hands
\* the request to create_proxy_stream.
handle_proxy_request_stream(p, up) ==
    /\ initialized
    /\ proxies[p].present
    /\ LET prx == proxies[p]
           svs == RecoveryRead(prx)
           rec == auto_recover(prx, svs[prx.server_name], PostStatuses)
       IN  /\ servers' = svs
           /\ proxies' = [proxies EXCEPT ![p] = rec]
           /\ lastReq' = IF rec.status = "running"
                         THEN ListAnswer("jsonrpc_stream", p, rec,
                                         create_proxy_stream_tools_list(
                                             rec, svs[rec.server_name], up))
                         ELSE lastReq
    /\ UNCHANGED <<initialized, delayed, restarting>>
    /\ ProxyFrame

\* POST /api/proxy/{name}/call with a tools/list.
proxy_call_tools_list(p) ==
    /\ initialized
    /\ LET r == proxy_request_tools_list(proxies[p], TargetOf(proxies[p]))
       IN  lastReq' = ListAnswer("proxy_request", p, proxies[p],
                                 [code |-> IF r.raised THEN HttpError ELSE r.code,
                                  tools |-> r.tools, contacted |-> r.contacted])
    /\ UNCHANGED <<servers, proxies, initialized, delayed, restarting>>
    /\ ProxyFrame

\* POST /api/proxy/{name}/stream with a tools/list.
proxy_stream(p, up) ==
    /\ initialized
    /\ lastReq' = ListAnswer("proxy_stream", p, proxies[p],
                             create_proxy_stream_tools_list(proxies[p],
                                                            TargetOf(proxies[p]), up))
    /\ UNCHANGED <<servers, proxies, initialized, delayed, restarting>>
    /\ ProxyFrame

\* POST /messages?sessionId= with a tools/list: handle_sse_message
\* (handle_tools_list_request does not suspend).
handle_sse_message_tools_list(sid, p, id) ==
    /\ initialized
    /\ sid \in DOMAIN sessions
    /\ LET got == Touch(sessions, sid, now)
       IN  IF got[sid].proxy_name # p
           THEN /\ sessions' = got
                /\ UNCHANGED <<nextMsg, lastReq>>
           ELSE /\ sessions' = add_message(got, sid, Message(id, TRUE), TRUE, now)
                /\ nextMsg' = Max2(nextMsg, id + 1)
                /\ lastReq' = ListAnswer("sse_post", p, proxies[p],
                                         handle_tools_list_request(proxies[p]))
    /\ UNCHANGED <<now, history, cache, violations, streams, nextSid, lastReg,
                   removals, cleaned, delivered, lastDrain, inflight>>
    /\ SessionFrame

(***************************************************************************)
(* SpecProxy: the managers as loaded from their configuration files, under *)
(* every management route and client request.                              *)
(***************************************************************************)
NoRetry == [pos |-> "idle", server |-> "", endpoints |-> 0, max_retries |-> 0,
            factor2 |-> 0, attempt |-> 0, current_delay |-> 0, attempts |-> 0,
            delays |-> <<>>, errors |-> <<>>, success |-> FALSE, surfaced |-> ""]
NoStream == [pos |-> "new", sid |-> 0, registered |-> FALSE, out |-> <<>>,
             by |-> "none"]
NoReg == [valid |-> FALSE, client |-> "1.2.3.4", proxy |-> "P", count |-> 0,
          burst |-> FALSE, onproxy |-> 0, allowed |-> FALSE, recorded |-> "none",
          severity |-> "none"]
NoDrain == [valid |-> FALSE, at |-> 0, queue |-> <<>>, messages |-> <<>>]

NoCall == [fn |-> "none"]

InitEngine ==
    /\ now = 0
    /\ sessions = <<>>
    /\ history = [c \in ClientHosts |-> <<>>]
    /\ cache = [key \in ClientHosts \X ProxyNames |-> NoCache]
    /\ violations = [c \in ClientHosts |-> <<>>]
    /\ streams = [k \in SessionIds |-> NoStream]
    /\ nextSid = 1
    /\ lastReg = NoReg
    /\ removals = [k \in SessionIds |-> 0]
    /\ cleaned = {}
    /\ delivered = [k \in SessionIds |-> <<>>]
    /\ lastDrain = NoDrain
    /\ nextMsg = 1
    /\ inflight = {}
    /\ retry = NoRetry

InitSessions ==
    /\ InitEngine
    /\ call = NoCall

InitProxy ==
    /\ servers \in [ServerNames -> {NoServer} \cup {McpServerInstance(tt) : tt \in Transports}]
    /\ proxies \in [ProxyNames ->
                      {NoProxy} \cup {McpProxyInstance(sn, e) :
                                        sn \in ServerNames, e \in ExposedChoices}]
    /\ initialized = FALSE
    /\ delayed = [p \in ProxyNames |-> FALSE]
    /\ restarting = [p \in ProxyNames |-> FALSE]
    /\ lastReq = NoReq
    /\ InitSessions

CallTools == ToolNames \cup {""}

NextProxy ==
    \/ \E s \in ServerNames, tt \in Transports : add_server(s, tt)
    \/ \E s \in ServerNames : remove_server(s)
    \/ \E s \in ServerNames : StartServer(s)
    \/ \E s \in ServerNames : StopServer(s)
    \/ \E s \in ServerNames : VerifyServer(s)
    \/ \E auto \in SUBSET ProxyNames : initialize(auto)
    \/ \E p \in ProxyNames : delayed_proxy_tool_update(p)
    \/ \E p \in ProxyNames, sn \in ServerNames, e \in ExposedChoices :
          create_proxy(p, sn, e)
    \/ \E p, q \in ProxyNames, e \in ExposedChoices : update_proxy_route(p, q, e)
    \/ \E p \in ProxyNames : delete_proxy(p)
    \/ \E p \in ProxyNames : update_tools_route(p)
    \/ \E p \in ProxyNames : force_update_proxy(p)
    \/ \E p \in ProxyNames : start_proxy(p)
    \/ \E p \in ProxyNames : stop_proxy(p)
    \/ \E p \in ProxyNames : restart_proxy_begin(p)
    \/ \E p \in ProxyNames : restart_proxy_finish(p)
    \/ \E p \in ProxyNames : handle_proxy_warmup(p)
    \/ \E p \in ProxyNames : handle_proxy_request(p, "resources/list", "", TRUE)

SpecProxy == InitProxy /\ [][NextProxy]_vars

(***************************************************************************)
(* Claims on the proxy manager, checked under SpecProxy.                   *)
(***************************************************************************)
\* C1: a proxy with a non-empty exposed_tools and status running lists only
\* tools whose names are in exposed_tools, after every operation that can
\* write the list (add, update, start, stop, restart, update-tools,
\* force-update, auto-start, the delayed update, auto-recovery).
C1_ExposedToolsFilter ==
    \A p \in ProxyNames :
        (proxies[p].present /\ proxies[p].exposed_tools # <<>>
                            /\ proxies[p].status = "running")
            => Range(proxies[p].tools) \subseteq Range(proxies[p].exposed_tools)

(***************************************************************************)
(* The gateway of the session specifications: one stdio server and two     *)
(* proxies on it, P exposing get-user alone and Q exposing everything,     *)
(* brought up by the start-up sequence (the server verifies with both      *)
(* tools, then McpProxyManager.initialize auto-starts the proxies).        *)
(***************************************************************************)
InitGateway ==
    /\ servers = [s \in ServerNames |-> McpServerInstance("stdio")]
    /\ proxies = [p \in ProxyNames |->
                    McpProxyInstance("notion", IF p = "P" THEN <<"get-user">> ELSE <<>>)]
    /\ initialized = FALSE
    /\ delayed = [p \in ProxyNames |-> FALSE]
    /\ restarting = [p \in ProxyNames |-> FALSE]
    /\ lastReq = NoReq
    /\ InitSessions

StartUp ==
    \/ ~initialized /\ VerifyWith("notion", TRUE, <<"get-user", "delete-user">>)
    \/ servers["notion"].status = "running" /\ initialize(ProxyNames)

\* Session ids a client can send: the ones earlier streams were given.
KnownIds(k) == {streams[j].sid : j \in {i \in SessionIds : i < k}}

(***************************************************************************)
(* SpecRate: streams opening and ending under the rate limits, the cleanup *)
(* loop and the clock.                                                     *)
(***************************************************************************)
NextRate ==
    \/ StartUp
    \/ \E k \in 1..MaxSid, p \in ProxyNames, c \in ClientHosts :
          mcp_sse_stream_open(k, k, p, c)
    \/ \E k \in 1..MaxSid : mcp_sse_stream_finally(k)
    \/ cleanup_expired_sessions
    \/ Tick(RateStep, MaxRateTime)

SpecRate == InitGateway /\ [][NextRate]_vars

(***************************************************************************)
(* Claims on the rate limits, checked under SpecRate.                      *)
(***************************************************************************)
Severities == {"low", "medium", "high", "critical"}

\* C3: when a client has exactly max_sessions_per_client sessions created
\* inside the current window and no burst allowance applies, its next
\* register_session is denied and a client_limit violation (severity low or
\* above) is recorded, whatever the timing and order of the requests.
C3_ClientLimitDenies ==
    (lastReg.valid /\ lastReg.count = max_sessions_per_client /\ ~lastReg.burst)
        => /\ ~lastReg.allowed
           /\ lastReg.recorded = "client_limit"
           /\ lastReg.severity \in Severities

\* C4: no client has more than max_sessions_per_client + burst_allowance
\* successful registrations inside one window.
C4_ClientWindowCap ==
    \A c \in ClientHosts :
        Len(SelectSeq(history[c], LAMBDA x : x > now - session_creation_window))
            <= max_sessions_per_client + burst_allowance

\* C5: the sessions attached to one proxy never number more than
\* max_sessions_per_proxy.
C5_ProxySessionCap ==
    \A p \in ProxyNames : ProxySessionCount(sessions, p) <= max_sessions_per_proxy

(***************************************************************************)
(* SpecStream: the life of the SSE streams of one client, session ids      *)
(* fresh or sent by the client, against the cleanup loop and the clock.    *)
(***************************************************************************)
NextStream ==
    \/ StartUp
    \/ \E k \in 1..MaxStreams, p \in ProxyNames :
          \E sid \in {k} \cup KnownIds(k) : mcp_sse_stream_open(k, sid, p, "1.2.3.4")
    \/ \E k \in 1..MaxStreams : mcp_sse_stream_finally(k)
    \/ cleanup_expired_sessions
    \/ Tick(RateStep, MaxRateTime)

SpecStream == InitGateway /\ [][NextStream]_vars

OwnedBy(k) == {sid \in DOMAIN sessions : sessions[sid].owner = k}

\* C6: every registered SSE session leaves the session map exactly once: no
\* session is taken out twice, a stream that registered and has ended has
\* left no session of its own behind, and its session was taken out once,
\* whatever the interleaving of stream ends, cleanup rounds and other
\* streams.
C6_UnregisteredOnce ==
    \A k \in SessionIds :
        /\ removals[k] <= 1
        /\ (streams[k].registered /\ streams[k].pos = "closed")
              => (removals[k] = 1 /\ OwnedBy(k) = {})
        /\ (streams[k].registered /\ streams[k].pos \in {"open", "idle"})
              => (removals[k] = 1 <=> OwnedBy(k) = {})
        /\ ~streams[k].registered => (removals[k] = 0 /\ OwnedBy(k) = {})

\* A stream ended after the cleanup loop had taken its session, next to one
\* that ended with its session still in the map.
C6_Witness ==
    \E j, k \in SessionIds :
        /\ j # k
        /\ streams[j].registered /\ streams[j].pos = "closed" /\ removals[j] = 1
        /\ streams[k].registered /\ streams[k].pos = "closed" /\ removals[k] = 1
        /\ streams[j].sid # streams[k].sid
        /\ j \in cleaned /\ k \notin cleaned

(***************************************************************************)
(* SpecCall: tools/call requests on every entry of the running gateway.    *)
(***************************************************************************)
NextCall ==
    \/ StartUp
    \/ \E k \in 1..MaxCallStreams, p \in ProxyNames :
          mcp_sse_stream_open(k, k, p, "1.2.3.4")
    \/ \E k \in 1..MaxCallStreams : mcp_sse_stream_poll(k)
    \/ \E k \in 1..MaxCallStreams : mcp_sse_stream_heartbeat(k)
    \/ \E k \in 1..MaxCallStreams : mcp_sse_stream_yield(k)
    \/ \E k \in 1..MaxCallStreams : mcp_sse_stream_finally(k)
    \/ \E p \in ProxyNames, tool \in CallTools, up \in BOOLEAN :
          handle_proxy_request(p, "tools/call", tool, up)
    \/ \E p \in ProxyNames, tool \in CallTools, up \in BOOLEAN :
          proxy_call_route(p, tool, up)
    \/ \E p \in ProxyNames, tool \in CallTools, up \in BOOLEAN : mcp_endpoint(p, tool, up)
    \/ \E sid \in 1..MaxCallStreams, p \in ProxyNames, tool \in CallTools,
          up \in BOOLEAN :
          nextMsg <= MaxCallMsg /\ handle_sse_message_call(sid, p, nextMsg, tool, up)
    \/ \E req \in inflight : handle_sse_message_enqueue(req)
    \/ \E sid \in 1..MaxCallStreams, tool \in CallTools, up \in BOOLEAN :
          handle_mcp_message(sid, "tools/call", tool, up)

SpecCall == InitGateway /\ [][NextCall]_vars

\* C2: a tools/call that names a tool outside a non-empty exposed_tools is
\* answered with error -32601 and is not forwarded to the upstream, on every
\* entry (JSON-RPC POST, SSE message POST, session engine, proxy_request).
C2_HiddenToolRejected ==
    (/\ lastReq.entry # "none"
     /\ lastReq.exposed # <<>>
     /\ lastReq.tool \in ToolNames \ Range(lastReq.exposed))
        => (lastReq.code = MethodNotFound /\ ~lastReq.forwarded)

(***************************************************************************)
(* SpecQueue: the pending queues of SSE sessions, filled by initialize     *)
(* posts (priority) and broadcasts (non-priority) and drained by the       *)
(* streams while the clock moves on.                                       *)
(***************************************************************************)
NextQueue ==
    \/ StartUp
    \/ \E k \in QueueStreams, p \in ProxyNames :
          mcp_sse_stream_open(k, k, p, "1.2.3.4")
    \/ \E k \in QueueStreams : mcp_sse_stream_poll(k)
    \/ \E k \in QueueStreams : mcp_sse_stream_heartbeat(k)
    \/ \E k \in QueueStreams : mcp_sse_stream_yield(k)
    \/ \E k \in QueueStreams : mcp_sse_stream_finally(k)
    \/ \E sid \in QueueStreams, p \in ProxyNames :
          nextMsg <= MaxMsg /\ handle_sse_message_initialize(sid, p, nextMsg)
    \/ \E p \in ProxyNames :
          nextMsg <= MaxMsg /\ initialized /\ broadcast_to_proxy(p, nextMsg)
    \/ Tick(QueueStep, MaxQueueTime)

SpecQueue == InitGateway /\ [][NextQueue]_vars

\* Message ids grow with the order of enqueuing in SpecQueue.
EnqueuedBefore(m1, m2) == m1.id < m2.id

\* C9: within one SSE session, non-priority messages are delivered in the
\* order they were enqueued, and priority messages are delivered in the
\* order in which the priority messages were enqueued; in the queue the
\* priority messages stand ahead of the non-priority ones.
C9_DeliveryOrder ==
    \A k \in SessionIds :
        /\ \A i, j \in 1..Len(delivered[k]) :
              (i < j /\ delivered[k][i].priority = delivered[k][j].priority)
                 => EnqueuedBefore(delivered[k][i], delivered[k][j])
        /\ \A sid \in OwnedBy(k) :
              LET q == sessions[sid].pending_messages
              IN  \A i, j \in 1..Len(q) :
                     (i < j /\ q[j].message.priority) => q[i].message.priority

\* C10: at every drain of a queue, the messages handed to the stream are,
\* in order, the queued messages whose age is at most their timeout: a
\* message is dropped if and only if it stayed in the queue for more than
\* its timeout.
C10_TimeoutAtDrain ==
    lastDrain.valid =>
        LET kept == SelectSeq(lastDrain.queue,
                              LAMBDA pm : lastDrain.at - pm.timestamp <= pm.timeout)
        IN  /\ lastDrain.messages = [i \in 1..Len(kept) |-> kept[i].message]
            /\ \A i \in 1..Len(lastDrain.queue) :
                  (lastDrain.at - lastDrain.queue[i].timestamp > lastDrain.queue[i].timeout)
                     <=> (\A j \in 1..Len(lastDrain.messages) :
                             lastDrain.messages[j] # lastDrain.queue[i].message)

\* A drain that hands over a message of age exactly its timeout and drops
\* an older one.
C10_Witness ==
    /\ lastDrain.valid
    /\ \E i, j \in 1..Len(lastDrain.queue) :
          /\ lastDrain.at - lastDrain.queue[i].timestamp = lastDrain.queue[i].timeout
          /\ lastDrain.queue[i].message \in Range(lastDrain.messages)
          /\ lastDrain.at - lastDrain.queue[j].timestamp > lastDrain.queue[j].timeout
          /\ lastDrain.queue[j].message \notin Range(lastDrain.messages)

(***************************************************************************)
(* SpecClean: sessions that age, are touched, are flooded with responses   *)
(* and are taken out by the cleanup task, which keeps running              *)
(* (start_cleanup_task at application start, one round per interval).      *)
(* All messages of a queue carry one timestamp (a burst), and the queue     *)
(* that grows long is that of the first stream, before it has drained.     *)
(***************************************************************************)
Burst(sid) ==
    LET q == sessions[sid].pending_messages
        k == sessions[sid].owner
    IN  /\ Len(q) < MaxFlood
        /\ IF q = <<>> THEN TRUE
           ELSE q[1].timestamp = now /\ q[Len(q)].timestamp = now
        /\ IF Len(q) < MaxCleanDrain THEN TRUE
           ELSE k = 1 /\ delivered[k] = <<>> /\ streams[k].out = <<>>

NextClean ==
    \/ StartUp
    \/ \E k \in CleanStreams : mcp_sse_stream_open(k, k, "P", "1.2.3.4")
    \/ \E k \in CleanStreams :
          /\ streams[k].sid \in DOMAIN sessions
          /\ Len(delivered[k]) + Len(sessions[streams[k].sid].pending_messages)
                <= MaxCleanDrain
          /\ mcp_sse_stream_poll(k)
    \/ \E k \in CleanStreams : mcp_sse_stream_heartbeat(k)
    \/ \E k \in CleanStreams : mcp_sse_stream_yield(k)
    \/ \E k \in CleanStreams : mcp_sse_stream_finally(k)
    \/ \E sid \in CleanStreams, p \in ProxyNames :
          /\ sid \in DOMAIN sessions
          /\ Burst(sid)
          /\ handle_sse_message_initialize(sid, p, 0)
    \/ \E sid \in CleanStreams : handle_mcp_message(sid, "initialize", "", TRUE)
    \/ /\ initialized
       /\ \A sid \in DOMAIN sessions : sessions[sid].pending_messages = <<>>
       /\ broadcast_to_proxy("P", 0)
    \/ cleanup_expired_sessions
    \/ Tick(CleanStep, MaxCleanTime)

SpecClean == InitGateway /\ [][NextClean]_vars /\ WF_vars(cleanup_expired_sessions)

\* C7: the pending queue of every registered SSE session holds at most the
\* configured bound of 100 entries, after any sequence of add_message,
\* broadcast_to_proxy and get_pending_messages.
C7_PendingBounded ==
    \A sid \in DOMAIN sessions : Len(sessions[sid].pending_messages) <= PendingLimit

\* The expiry predicates of a session at time t, as the claim lists them.
ExpiryPredicate(ses, t) ==
    \/ t - ses.last_activity > session_timeout
    \/ t - ses.created_at > 3 * session_timeout
    \/ Len(ses.pending_messages) > PendingLimit
    \/ (~ses.is_initialized /\ t - ses.created_at > InitializationTimeout)

HttpAccepted == 202
HttpBadRequest == 400

\* The HTTP status handle_sse_message answers a well-formed POST with.
handle_sse_message_status(sess, sid, p) ==
    IF sid \notin DOMAIN sess THEN HttpError
    ELSE IF sess[sid].proxy_name # p THEN HttpBadRequest
    ELSE HttpAccepted

MsgIds == 0..MaxMsg

\* The queue of session sid holds, after the step, one more message than
\* before: the priority response with this id.
EnqueuedOne(sid, id) ==
    /\ sid \in DOMAIN sessions /\ sid \in DOMAIN sessions'
    /\ sessions'[sid].pending_messages =
          <<PendingMessage(Message(id, TRUE), now)>> \o sessions[sid].pending_messages

\* C11: every SSE-message POST that names an existing session is routed to
\* the proxy of that session and answered 202, and by the time it returns
\* exactly one response with the request's id has been put into the
\* session's pending queue.
C11_PostEnqueuesOne ==
    [][/\ \A sid \in DOMAIN sessions, p \in ProxyNames, id \in MsgIds :
             handle_sse_message_initialize(sid, p, id)
                => (/\ handle_sse_message_status(sessions, sid, p) = HttpAccepted
                    /\ EnqueuedOne(sid, id))
       /\ \A sid \in DOMAIN sessions, p \in ProxyNames, id \in MsgIds,
             tool \in CallTools, up \in BOOLEAN :
             handle_sse_message_call(sid, p, id, tool, up)
                => (/\ handle_sse_message_status(sessions, sid, p) = HttpAccepted
                    /\ \/ [sid |-> sid, id |-> id] \in inflight'
                       \/ EnqueuedOne(sid, id))
       /\ \A req \in inflight :
             handle_sse_message_enqueue(req) => EnqueuedOne(req.sid, req.id)
      ]_vars

(***************************************************************************)
(* SpecList: tools/list requests on every dispatch path of the running     *)
(* gateway, while proxies are stopped, started and refreshed.              *)
(***************************************************************************)
NextList ==
    \/ StartUp
    \/ \E p \in ProxyNames : update_tools_route(p)
    \/ \E p \in ProxyNames : stop_proxy(p)
    \/ \E p \in ProxyNames : start_proxy(p)
    \/ \E k \in 1..MaxCallStreams, p \in ProxyNames :
          mcp_sse_stream_open(k, k, p, "1.2.3.4")
    \/ \E k \in 1..MaxCallStreams : mcp_sse_stream_poll(k)
    \/ \E k \in 1..MaxCallStreams : mcp_sse_stream_heartbeat(k)
    \/ \E k \in 1..MaxCallStreams : mcp_sse_stream_yield(k)
    \/ \E k \in 1..MaxCallStreams : mcp_sse_stream_finally(k)
    \/ \E p \in ProxyNames : handle_proxy_request(p, "tools/list", "", TRUE)
    \/ \E p \in ProxyNames, up \in BOOLEAN : handle_proxy_request_stream(p, up)
    \/ \E p \in ProxyNames : proxy_call_tools_list(p)
    \/ \E p \in ProxyNames, up \in BOOLEAN : proxy_stream(p, up)
    \/ \E sid \in 1..MaxCallStreams, p \in ProxyNames :
          nextMsg <= MaxCallMsg /\ handle_sse_message_tools_list(sid, p, nextMsg)
    \/ \E sid \in 1..MaxCallStreams : handle_mcp_message(sid, "tools/list", "", TRUE)

SpecList == InitGateway /\ [][NextList]_vars

\* C12: a tools/list is answered with exactly the tool list the proxy has
\* cached and without contacting the upstream, on every dispatch path
\* (proxy_request, the JSON-RPC POST handler, the SSE-message handler, the
\* session engine and the streaming path), whatever exposed_tools is.
C12_ToolsListFromCache ==
    ("method" \in DOMAIN lastReq /\ lastReq.method = "tools/list")
        => (/\ lastReq.code = CodeOk
            /\ lastReq.tools = lastReq.cached
            /\ ~lastReq.forwarded)

(***************************************************************************)
(* SpecBurst: the streams of one client against   a clock fine enough to    *)
(* tell the cached verdict (5 s) from the idle time of the burst (30 s).   *)
(***************************************************************************)
MaxBurstTime == 50
BurstStep == 10

NextBurst ==
    \/ StartUp
    \/ \E k \in 1..MaxStreams, p \in ProxyNames :
          mcp_sse_stream_open(k, k, p, "1.2.3.4")
    \/ \E k \in 1..MaxStreams : mcp_sse_stream_finally(k)
    \/ Tick(BurstStep, MaxBurstTime)

SpecBurst == InitGateway /\ [][NextBurst]_vars

\* The client's registrations inside the window at time t.
RecentOf(c, t) == SelectSeq(history[c], LAMBDA x : x > t - session_creation_window)

\* History cs of a client at time t: it reached max_sessions_per_client, then
\* made no session for more than 30 s, and has since used fewer than
\* burst_allowance additional sessions.
BurstOwed(cs, t) ==
    /\ Len(cs) >= max_sessions_per_client
    /\ Len(cs) - max_sessions_per_client < burst_allowance
    /\ (IF Len(cs) > max_sessions_per_client
        THEN cs[max_sessions_per_client + 1] ELSE t)
          - cs[max_sessions_per_client] > BurstIdleSeconds

\* C13: with adaptive_scaling on, a client that reached
\* max_sessions_per_client inside the window and then made no session for
\* more than 30 s is granted burst_allowance more sessions: each of its next
\* burst_allowance register_session calls succeeds (the proxy having room).
C13_BurstGranted ==
    [][\A k \in 1..MaxStreams, p \in ProxyNames, c \in ClientHosts :
          (/\ mcp_sse_stream_open(k, k, p, c)
           /\ adaptive_scaling
           /\ BurstOwed(RecentOf(c, now), now)
           /\ ProxySessionCount(sessions, p) < max_sessions_per_proxy)
              => streams'[k].registered]_vars

\* C14: on every live SSE connection whose session was registered the
\* heartbeat/drain loop keeps running, a ping every heartbeat_interval_seconds,
\* until the client disconnects: a registered stream ends by the client's
\* disconnection only.
C14_LoopRunsUntilDisconnect ==
    \A k \in SessionIds :
        (streams[k].registered /\ streams[k].pos = "closed")
            => streams[k].by = "client"

(***************************************************************************)
(* SpecService: the service manager behind the /api/servers routes         *)
(* (api/gateway.py), two service names so that an update can rename.       *)
(***************************************************************************)
ServiceNames == ServerNames \cup {"github"}

\* McpServiceManager.restart_server.
restart_server(srv) ==
    IF srv.transport_type \in {"sse", "streamableHTTP"}
    THEN [srv EXCEPT !.status = "running", !.error_message = ""]
    ELSE start_server(stop_server(srv))

\* The boolean verify_mcp_server returns next to the tool list.
verify_mcp_server_ok(srv, ok, tl) == ok /\ tl # <<>>

\* The test update_server makes before it stops the instance.
update_server_was_running(srv) == srv.status = "running"

\* McpServiceManager.update_server(name, config) on the servers map svs;
\* config carries the name new and the transport type tt.
update_server(svs, old, new, tt) ==
    LET was_running == update_server_was_running(svs[old])
        halted == IF was_running THEN [svs EXCEPT ![old] = stop_server(@)] ELSE svs
        moved == IF old # new
                 THEN [halted EXCEPT ![old] = NoServer, ![new] = McpServerInstance(tt)]
                 ELSE [halted EXCEPT ![old].transport_type = tt]
    IN  IF was_running THEN [moved EXCEPT ![new] = start_server(@)] ELSE moved

ServiceFrame ==
    /\ UNCHANGED <<proxies, initialized, delayed, restarting, lastReq>>
    /\ ProxyFrame

\* POST /api/servers/{name}/restart.
RestartServer(s) ==
    /\ servers[s].present
    /\ servers' = [servers EXCEPT ![s] = restart_server(@)]
    /\ ServiceFrame

\* GET /api/servers/{name}.
get_server(s) ==
    /\ servers[s].present
    /\ servers' = [servers EXCEPT ![s] = get_server_status(@)]
    /\ ServiceFrame

\* POST /api/servers/{name}/verify: verify_mcp_server, then a status read.
verify_server(s, ok, tl) ==
    /\ servers[s].present
    /\ servers' = [servers EXCEPT ![s] = get_server_status(verify_mcp_server(@, ok, tl))]
    /\ ServiceFrame

\* PUT /api/servers/{name}: a status read, update_server, and with auto_start
\* set on a stdio service a stop (if it runs) and a start. (The connection
\* the route awaits for a remote service is asked with the instance where
\* the name belongs and changes nothing.)
update_server_route(old, new, tt, auto) ==
    /\ servers[old].present
    /\ LET read == [servers EXCEPT ![old] = get_server_status(@)]
           upd == update_server(read, old, new, tt)
           got == get_server_status(upd[new])
       IN  servers' = IF auto /\ tt = "stdio"
                      THEN [upd EXCEPT ![new] =
                              start_server(IF got.status \in {"running", "verified"}
                                           THEN stop_server(got) ELSE got)]
                      ELSE upd
    /\ ServiceFrame

InitService ==
    /\ servers = [n \in ServiceNames |-> NoServer]
    /\ proxies = [p \in ProxyNames |-> NoProxy]
    /\ initialized = FALSE
    /\ delayed = [p \in ProxyNames |-> FALSE]
    /\ restarting = [p \in ProxyNames |-> FALSE]
    /\ lastReq = NoReq
    /\ InitSessions

NextService ==
    \/ \E s \in ServiceNames, tt \in Transports : add_server(s, tt)
    \/ \E s \in ServiceNames : remove_server(s)
    \/ \E s \in ServiceNames : StartServer(s)
    \/ \E s \in ServiceNames : StopServer(s)
    \/ \E s \in ServiceNames : RestartServer(s)
    \/ \E s \in ServiceNames : VerifyServer(s)
    \/ \E s \in ServiceNames, ok \in BOOLEAN, tl \in UpstreamToolLists :
          verify_server(s, ok, tl)
    \/ \E s \in ServiceNames : get_server(s)
    \/ \E old, new \in ServiceNames, tt \in Transports, auto \in BOOLEAN :
          update_server_route(old, new, tt, auto)

SpecService == InitService /\ [][NextService]_vars

\* The statuses the two kinds of service use, as the claim lists them.
StatusSet(tt) ==
    IF tt = "stdio" THEN {"stopped", "running", "error"}
    ELSE {"stopped", "connected", "disconnected", "error"}

\* C15: after any sequence of add, start, stop, restart, verify, update and
\* status reads the status of a stdio service is one of stopped, running,
\* error and the status of a remote service is one of stopped, connected,
\* disconnected, error.
C15_StatusSets ==
    \A s \in ServiceNames :
        servers[s].present => servers[s].status \in StatusSet(servers[s].transport_type)

\* The statuses a failed verification is said to leave.
FailedStatusSet(tt) ==
    IF tt = "stdio" THEN {"error"} ELSE {"disconnected", "error"}

\* C16: every verify call on an existing service that returns ok = false
\* leaves the service with status error (stdio) or disconnected/error
\* (remote) and with an error_message stored; it never reports failure
\* while leaving the status running or connected.
C16_VerifyFailureStatus ==
    \A s \in ServiceNames, ok \in BOOLEAN, tl \in UpstreamToolLists :
        (servers[s].present /\ ~verify_mcp_server_ok(servers[s], ok, tl))
           => LET after == verify_mcp_server(servers[s], ok, tl)
              IN  /\ after.status \in FailedStatusSet(after.transport_type)
                  /\ after.error_message # ""

\* A service is active: running, or connected for a remote service.
Active(srv) ==
    /\ srv.present
    /\ srv.status \in (IF srv.transport_type = "stdio" THEN {"running"}
                       ELSE {"running", "connected"})

\* C17: update(old_name, new_config) restarts the instance if and only if it
\* was running: a service that was active before the update is active
\* afterwards under the new configuration and name, and a service that was
\* not active is left not active.
C17_UpdateRestartsIffRunning ==
    [][\A old, new \in ServiceNames, tt \in Transports :
          update_server_route(old, new, tt, FALSE)
             => (Active(servers'[new]) <=> Active(servers[old]))]_vars

(***************************************************************************)
(* Claims on the proxies and their upstream services, checked under        *)
(* SpecProxy.                                                              *)
(***************************************************************************)
\* The statuses of an upstream a proxy may run on, as the claim lists them.
StartableStatuses == {"running", "connected", "verified"}

\* C18: a proxy's status becomes running only when its upstream service
\* exists and is in one of the statuses running, connected or verified; an
\* operation on a proxy whose upstream is in any other status does not leave
\* the proxy running.
C18_RunningNeedsUpstream ==
    [][\A p \in ProxyNames :
          (/\ proxies'[p].present /\ proxies'[p].status = "running"
           /\ ~(proxies[p].present /\ proxies[p].status = "running"))
             => (/\ proxies'[p].server_name \in ServerNames
                 /\ servers'[proxies'[p].server_name].present
                 /\ servers'[proxies'[p].server_name].status \in StartableStatuses)]_vars

\* C19: at all times every tool in a proxy's tools list is also a member of
\* its upstream service's current tools list, after any sequence of proxy
\* operations and of upstream verify, stop and remove operations.
C19_ToolsWithinUpstream ==
    \A p \in ProxyNames :
        proxies[p].present
           => Range(proxies[p].tools) \subseteq Range(TargetOf(proxies[p]).tools)

(***************************************************************************)
(* SpecRetry: verify_mcp_server as the steps of its retry loop             *)
(* (retry_async_operation), times in milliseconds.                         *)
(***************************************************************************)
\* The arguments verify_mcp_server hands to retry_async_operation on each
\* transport; factor2 is twice the backoff_factor.
RetryArguments(tt) ==
    IF tt = "stdio" THEN [max_retries |-> 3, retry_delay |-> 1000, factor2 |-> 4]
    ELSE IF tt = "sse" THEN [max_retries |-> 3, retry_delay |-> 2000, factor2 |-> 4]
    ELSE [max_retries |-> 4, retry_delay |-> 1000, factor2 |-> 3]

\* The exceptions an attempt can end with.
Exceptions == {"ConnectionError", "TimeoutError"}

RetryFrame ==
    UNCHANGED <<proxies, initialized, delayed, restarting, lastReq, now, sessions,
                history, cache, violations, streams, nextSid, lastReg, removals,
                cleaned, delivered, lastDrain, nextMsg, inflight, call>>

\* verify_mcp_server(name) up to its first call of retry_async_operation; n
\* is the number of endpoints it will try (two for an sse url that does not
\* end with /mcp/sse).
verify_mcp_server_begin(s, n) ==
    /\ retry.pos = "idle"
    /\ servers[s].present
    /\ n = 1 \/ servers[s].transport_type = "sse"
    /\ LET a == RetryArguments(servers[s].transport_type)
       IN  retry' = [NoRetry EXCEPT !.pos = "trying", !.server = s, !.endpoints = n,
                                    !.max_retries = a.max_retries,
                                    !.factor2 = a.factor2,
                                    !.current_delay = a.retry_delay]
    /\ UNCHANGED servers
    /\ RetryFrame

\* One round of the loop of retry_async_operation: the sleep (from the
\* second attempt on) and the operation, which succeeds (ok) or raises e.
\* After the last failed attempt on an endpoint the sse branch goes on to
\* its next endpoint with a new retry_async_operation.
retry_async_operation(ok, e) ==
    /\ retry.pos = "trying"
    /\ LET slept == IF retry.attempt > 0
                    THEN [retry EXCEPT !.delays = Append(@, retry.current_delay),
                                       !.current_delay = (@ * retry.factor2) \div 2]
                    ELSE retry
           tried == [slept EXCEPT !.attempts = @ + 1]
       IN  retry' =
             IF ok
             THEN [tried EXCEPT !.pos = "returned", !.success = TRUE]
             ELSE IF retry.attempt < retry.max_retries
             THEN [tried EXCEPT !.errors = Append(@, e), !.attempt = @ + 1]
             ELSE IF retry.endpoints > 1
             THEN [tried EXCEPT !.errors = Append(@, e), !.attempt = 0,
                                !.endpoints = @ - 1,
                                !.current_delay =
                                    RetryArguments(servers[retry.server].transport_type)
                                        .retry_delay]
             ELSE [tried EXCEPT !.errors = Append(@, e), !.pos = "returned",
                                !.surfaced = e]
    /\ UNCHANGED servers
    /\ RetryFrame

\* verify_mcp_server after retry_async_operation has returned: the status,
\* the tools and the error_message are written (tl = the list the upstream
\* answered with).
verify_mcp_server_end(tl) ==
    /\ retry.pos = "returned"
    /\ retry' = NoRetry
    /\ servers' = [servers EXCEPT ![retry.server] =
                      IF @.present THEN verify_mcp_server(@, retry.success, tl) ELSE @]
    /\ RetryFrame

InitRetry ==
    /\ servers = [s \in ServerNames |-> NoServer]
    /\ proxies = [p \in ProxyNames |-> NoProxy]
    /\ initialized = FALSE
    /\ delayed = [p \in ProxyNames |-> FALSE]
    /\ restarting = [p \in ProxyNames |-> FALSE]
    /\ lastReq = NoReq
    /\ InitSessions

NextRetry ==
    \/ \E s \in ServerNames, tt \in Transports : retry.pos = "idle" /\ add_server(s, tt)
    \/ \E s \in ServerNames : retry.pos = "idle" /\ remove_server(s)
    \/ \E s \in ServerNames, n \in {1, 2} : verify_mcp_server_begin(s, n)
    \/ \E ok \in BOOLEAN, e \in Exceptions : retry_async_operation(ok, e)
    \/ \E tl \in UpstreamToolLists : verify_mcp_server_end(tl)

SpecRetry == InitRetry /\ [][NextRetry]_vars

\* The delays the claim gives, in milliseconds.
ClaimedDelays == <<1000, 2000, 4000>>

\* C20: verification of a service, on every transport, makes at most 1 + 3
\* attempts separated by delays of 1 s, 2 s and 4 s, stops at the first
\* successful attempt, and after the last failed attempt terminates and
\* surfaces the last exception.
C20_RetrySchedule ==
    retry.pos # "idle"
       => /\ retry.attempts <= 1 + 3
          /\ Len(retry.delays) <= Len(ClaimedDelays)
          /\ retry.delays = SubSeq(ClaimedDelays, 1, Len(retry.delays))
          /\ retry.success => retry.pos = "returned"
          /\ (retry.pos = "returned" /\ ~retry.success)
                => retry.surfaced = retry.errors[Len(retry.errors)]

(***************************************************************************)
(* resources/list and resources/templates/list on every entry.             *)
(***************************************************************************)
MCP_CONVERSION_ERROR == -32005
MCP_VALIDATION_ERROR == -32006

ResourceMethods == {"resources/list", "resources/templates/list"}
RequestIds == {1, 2}

\* What the upstream does with a resource method: it lists its resources,
\* lists none, answers "Method not found", or fails otherwise.
UpstreamReplies == {"listed", "empty", "method_not_found", "error"}
UpstreamResources == <<"file:///notes">>

\* McpServiceManager.call_server_method for a method it hands to the
\* upstream as it is: a ValueError for a missing or unavailable server; the
\* default empty result only for a resource method and an upstream error
\* whose text holds "method not found".
call_server_method(srv, method, reply) ==
    IF ~srv.present \/ srv.status \notin CallableStatuses(srv)
    THEN [raised |-> TRUE, items |-> <<>>]
    ELSE IF reply = "listed"
         THEN [raised |-> FALSE, items |-> UpstreamResources]
         ELSE IF reply = "empty"
                 \/ (reply = "method_not_found" /\ method \in ResourceMethods)
              THEN [raised |-> FALSE, items |-> <<>>]
              ELSE [raised |-> TRUE, items |-> <<>>]

\* McpProxyManager.proxy_request for a method other than tools/list (the
\* request has an id, so an exception of the call is answered as -32603;
\* the ValueError for a missing proxy or target is raised before the try).
proxy_request_method(prx, srv, method, id, reply) ==
    IF ~prx.present \/ ~srv.present
    THEN [raised |-> TRUE, code |-> InternalError, rid |-> id, items |-> <<>>]
    ELSE LET r == call_server_method(srv, method, reply)
         IN  [raised |-> FALSE,
              code |-> IF r.raised THEN InternalError ELSE CodeOk,
              rid |-> id, items |-> r.items]

\* handle_resources_list_request: get_proxy_status returns a dict, so
\* reading proxy.config raises AttributeError (ValueError for a missing
\* proxy), and handle_conversion_error answers.
handle_resources_list_request(prx, id) ==
    [code |-> IF ~prx.present THEN MCP_VALIDATION_ERROR ELSE MCP_CONVERSION_ERROR,
     rid |-> id, items |-> <<>>]

\* The constant empty answer of handle_proxy_request (both methods), of
\* handle_sse_message (resources/templates/list) and of
\* _process_stream_request (both methods).
default_empty_response(id) == [code |-> CodeOk, rid |-> id, items |-> <<>>]

\* create_proxy_stream for a resource method: the backend session is opened
\* (up = it could be opened) before _process_stream_request answers.
create_proxy_stream_resources(prx, srv, id, up) ==
    IF ~prx.present \/ ~srv.present
    THEN [code |-> StreamError, rid |-> id, items |-> <<>>]
    ELSE IF ~up
         THEN [code |-> InternalError, rid |-> id, items |-> <<>>]
         ELSE default_empty_response(id)

\* The answer to a resource request as an entry gave it to a proxy whose
\* status was prx.status.
ResourceAnswer(entry, p, prx, method, id, r) ==
    [entry |-> entry, proxy |-> p, tool |-> "", exposed |-> prx.exposed_tools,
     code |-> r.code, forwarded |-> FALSE, method |-> method,
     status |-> prx.status, id |-> id, rid |-> r.rid, items |-> r.items]

\* POST /{proxy} with a resource method.
handle_proxy_request_resources(p, method, id) ==
    /\ initialized
    /\ proxies[p].present
    /\ LET prx == proxies[p]
           svs == RecoveryRead(prx)
           rec == auto_recover(prx, svs[prx.server_name], PostStatuses)
       IN  /\ servers' = svs
           /\ proxies' = [proxies EXCEPT ![p] = rec]
           /\ lastReq' = IF rec.status = "running"
                         THEN ResourceAnswer("jsonrpc_post", p, rec, method, id,
                                             default_empty_response(id))
                         ELSE lastReq
    /\ UNCHANGED <<initialized, delayed, restarting>>
    /\ ProxyFrame

\* POST /{proxy}?stream=true with a resource method.
handle_proxy_request_stream_resources(p, method, id, up) ==
    /\ initialized
    /\ proxies[p].present
    /\ LET prx == proxies[p]
           svs == RecoveryRead(prx)
           rec == auto_recover(prx, svs[prx.server_name], PostStatuses)
       IN  /\ servers' = svs
           /\ proxies' = [proxies EXCEPT ![p] = rec]
           /\ lastReq' = IF rec.status = "running"
                         THEN ResourceAnswer("jsonrpc_stream", p, rec, method, id,
                                             create_proxy_stream_resources(
                                                 rec, svs[rec.server_name], id, up))
                         ELSE lastReq
    /\ UNCHANGED <<initialized, delayed, restarting>>
    /\ ProxyFrame

\* POST /api/proxy/{name}/call with a method that proxy_request hands to
\* the service manager.
proxy_call_method(p, method, id, reply) ==
    /\ initialized
    /\ LET r == proxy_request_method(proxies[p], TargetOf(proxies[p]), method, id, reply)
       IN  lastReq' = ResourceAnswer("proxy_request", p, proxies[p], method, id,
                                     [code |-> IF r.raised THEN HttpError ELSE r.code,
                                      rid |-> r.rid, items |-> r.items])
    /\ UNCHANGED <<servers, proxies, initialized, delayed, restarting>>
    /\ ProxyFrame

\* POST /{proxy}/messages with a resource method:
\* handle_proxy_streamable_http answers in the HTTP response.
handle_proxy_streamable_http_resources(p, method, id) ==
    /\ initialized
    /\ lastReq' = ResourceAnswer("streamable_http", p, proxies[p], method, id,
                      IF method = "resources/list"
                      THEN handle_resources_list_request(proxies[p], id)
                      ELSE default_empty_response(id))
    /\ UNCHANGED <<servers, proxies, initialized, delayed, restarting>>
    /\ ProxyFrame

\* POST /messages?sessionId= with a resource method: handle_sse_message puts
\* the answer on the session's queue.
handle_sse_message_resources(sid, p, method, id) ==
    /\ initialized
    /\ sid \in DOMAIN sessions
    /\ LET got == Touch(sessions, sid, now)
       IN  IF got[sid].proxy_name # p
           THEN /\ sessions' = got
                /\ UNCHANGED <<nextMsg, lastReq>>
           ELSE /\ sessions' = add_message(got, sid, Message(id, TRUE), TRUE, now)
                /\ nextMsg' = Max2(nextMsg, id + 1)
                /\ lastReq' = ResourceAnswer("sse_post", p, proxies[p], method, id,
                                  IF method = "resources/list"
                                  THEN handle_resources_list_request(proxies[p], id)
                                  ELSE default_empty_response(id))
    /\ UNCHANGED <<now, history, cache, violations, streams, nextSid, lastReg,
                   removals, cleaned, delivered, lastDrain, inflight>>
    /\ SessionFrame

\* The id null of a response, and the method of a request that no handler
\* answers itself.
NullId == 0
SessionNotFound == -32002
OtherMethods == {"ping"}

\* POST /{proxy} with a method handle_proxy_request hands to proxy_request:
\* an exception leaving proxy_request reaches the handler's last except
\* clause, which answers with id null.
handle_proxy_request_other(p, method, id, reply) ==
    /\ initialized
    /\ proxies[p].present
    /\ LET prx == proxies[p]
           svs == RecoveryRead(prx)
           rec == auto_recover(prx, svs[prx.server_name], PostStatuses)
           r == proxy_request_method(rec, svs[rec.server_name], method, id, reply)
       IN  /\ servers' = svs
           /\ proxies' = [proxies EXCEPT ![p] = rec]
           /\ lastReq' = IF rec.status = "running"
                         THEN ResourceAnswer("jsonrpc_post", p, rec, method, id,
                                  [code |-> r.code,
                                   rid |-> IF r.raised THEN NullId ELSE r.rid,
                                   items |-> r.items])
                         ELSE lastReq
    /\ UNCHANGED <<initialized, delayed, restarting>>
    /\ ProxyFrame

\* POST /messages?sessionId= for a session that is not registered:
\* handle_global_sse_messages answers before the body is read.
handle_global_sse_messages(sid, method, id) ==
    /\ initialized
    /\ sid \notin DOMAIN sessions
    /\ lastReq' = ResourceAnswer("sse_post", "P", NoProxy, method, id,
                      [code |-> SessionNotFound, rid |-> NullId, items |-> <<>>])
    /\ UNCHANGED <<servers, proxies, initialized, delayed, restarting>>
    /\ ProxyFrame

(***************************************************************************)
(* SpecResources: resource requests and requests of other methods on every *)
(* entry of the running gateway, while the proxies are stopped and started *)
(* and the upstream server is removed.                                     *)
(***************************************************************************)
NextResources ==
    \/ StartUp
    \/ remove_server("notion")
    \/ \E p \in ProxyNames : stop_proxy(p)
    \/ \E p \in ProxyNames : start_proxy(p)
    \/ \E k \in 1..MaxCallStreams, p \in ProxyNames :
          mcp_sse_stream_open(k, k, p, "1.2.3.4")
    \/ \E k \in 1..MaxCallStreams : mcp_sse_stream_finally(k)
    \/ \E p \in ProxyNames, m \in ResourceMethods, id \in RequestIds :
          handle_proxy_request_resources(p, m, id)
    \/ \E p \in ProxyNames, m \in ResourceMethods, id \in RequestIds, up \in BOOLEAN :
          handle_proxy_request_stream_resources(p, m, id, up)
    \/ \E p \in ProxyNames, m \in ResourceMethods, id \in RequestIds,
          reply \in UpstreamReplies : proxy_call_method(p, m, id, reply)
    \/ \E p \in ProxyNames, m \in OtherMethods, id \in RequestIds,
          reply \in UpstreamReplies : handle_proxy_request_other(p, m, id, reply)
    \/ \E sid \in 1..MaxCallStreams, m \in ResourceMethods \cup OtherMethods,
          id \in RequestIds : handle_global_sse_messages(sid, m, id)
    \/ \E p \in ProxyNames, m \in ResourceMethods, id \in RequestIds :
          handle_proxy_streamable_http_resources(p, m, id)
    \/ \E sid \in 1..MaxCallStreams, p \in ProxyNames, m \in ResourceMethods :
          nextMsg <= MaxCallMsg /\ handle_sse_message_resources(sid, p, m, nextMsg)

SpecResources == InitGateway /\ [][NextResources]_vars

\* C21: a resources/list or resources/templates/list request to a running
\* proxy is answered with a success response that carries the request's id
\* and an empty list, on every entry (JSON-RPC POST, SSE-message POST,
\* streaming path, service-manager call), whatever the upstream answers.
C21_ResourcesAnsweredEmpty ==
    ("method" \in DOMAIN lastReq /\ lastReq.method \in ResourceMethods
        /\ lastReq.status = "running")
        => (/\ lastReq.code = CodeOk
            /\ lastReq.rid = lastReq.id
            /\ lastReq.items = <<>>)

\* C22: every response the gateway returns for a request that was parsed
\* carries the id of that request, success and error alike (the id is null
\* only for a request that could not be parsed).
C22_ResponseCarriesRequestId ==
    "rid" \in DOMAIN lastReq => lastReq.rid = lastReq.id

(***************************************************************************)
(* Message shaping: the functions that build and normalise what the        *)
(* gateway sends.  Text is a sequence of characters, so that strip() is    *)
(* computed.                                                               *)
(***************************************************************************)
MaxOld == 2          \* sessions an engine operation finds expired in SpecLock
MaxStrLen == 2
Chars == {"a", " "}
Strings == UNION {[1..n -> Chars] : n \in 0..MaxStrLen}

RECURSIVE lstrip(_)
lstrip(s) == IF s # <<>> /\ Head(s) = " " THEN lstrip(Tail(s)) ELSE s

RECURSIVE rstrip(_)
rstrip(s) == IF s # <<>> /\ s[Len(s)] = " " THEN rstrip(SubSeq(s, 1, Len(s) - 1)) ELSE s

\* str.strip()
strip(s) == rstrip(lstrip(s))

\* Every variable but call stays as it is.
CallFrame ==
    UNCHANGED <<servers, proxies, initialized, delayed, restarting, lastReq, now,
                sessions, history, cache, violations, streams, nextSid, lastReg,
                removals, cleaned, delivered, lastDrain, nextMsg, inflight, retry>>

\* The managers before any configuration is loaded.
InitManagers ==
    /\ servers = [s \in ServerNames |-> NoServer]
    /\ proxies = [p \in ProxyNames |-> NoProxy]
    /\ initialized = FALSE
    /\ delayed = [p \in ProxyNames |-> FALSE]
    /\ restarting = [p \in ProxyNames |-> FALSE]
    /\ lastReq = NoReq
    /\ InitEngine

(***************************************************************************)
(* The instructions of an initialize response.                             *)
(***************************************************************************)
\* McpProxyConfig: the fields of the slotted dataclass (d its description).
McpProxyConfig(d) ==
    [name |-> "P", server_name |-> "notion", endpoint |-> "/mcp",
     transport_type |-> "streamableHTTP", exposed_tools |-> <<>>,
     auto_start |-> FALSE, description |-> d]

\* _get_proxy_instructions (the same text in api/routes/dynamic_proxy.py and
\* in SSESessionManager): config is the proxy's McpProxyConfig, target
\* whether the upstream is in the service manager, info its
\* server_info['instructions'] and cfg its config.instructions.  Reading an
\* attribute the config does not have raises AttributeError, which the
\* except clause answers with the empty string.
get_proxy_instructions(config, target, info, cfg) ==
    IF "instructions" \notin DOMAIN config
    THEN <<>>
    ELSE IF config.instructions # <<>> /\ strip(config.instructions) # <<>>
    THEN strip(config.instructions)
    ELSE IF ~target
    THEN <<>>
    ELSE IF info # <<>> /\ strip(info) # <<>>
    THEN strip(info)
    ELSE IF cfg # <<>> /\ strip(cfg) # <<>>
    THEN strip(cfg)
    ELSE <<>>

\* The top-level instructions field handle_initialize_request and
\* _handle_initialize put into the result.
advertise(s) ==
    IF s # <<>> /\ strip(s) # <<>>
    THEN [present |-> TRUE, value |-> strip(s)]
    ELSE [present |-> FALSE, value |-> <<>>]

\* handle_initialize_request (the routes) and SSESessionManager._handle_initialize
\* (the session engine) answer an initialize request.
handle_initialize(entry) ==
    /\ call.fn = "initialize"
    /\ call.entry = "none"
    /\ call' = [call EXCEPT
                  !.entry = entry,
                  !.advertised = advertise(get_proxy_instructions(
                                    call.config, call.target, call.server_info,
                                    call.instructions))]
    /\ CallFrame

InitInstructions ==
    /\ InitManagers
    /\ call \in {[fn |-> "initialize", entry |-> "none", config |-> McpProxyConfig(d),
                  target |-> t, server_info |-> i, instructions |-> c,
                  advertised |-> advertise(<<>>)] :
                 d \in Strings, t \in BOOLEAN, i \in Strings, c \in Strings}

NextInstructions ==
    \/ handle_initialize("handle_initialize_request")
    \/ handle_initialize("_handle_initialize")

SpecInstructions == InitInstructions /\ [][NextInstructions]_vars

\* The proxy's own instructions: McpProxyConfig has no such field, so a
\* proxy has none unless its configuration holds one.
OwnInstructions(config) ==
    IF "instructions" \in DOMAIN config THEN config.instructions ELSE <<>>

\* The instructions the precedence rule names (blank counts as empty).
ClaimedInstructions(config, target, info, cfg) ==
    IF strip(OwnInstructions(config)) # <<>> THEN strip(OwnInstructions(config))
    ELSE IF target /\ strip(info) # <<>> THEN strip(info)
    ELSE IF target /\ strip(cfg) # <<>> THEN strip(cfg)
    ELSE <<>>

\* C23: the instructions of an initialize response are the proxy's own if
\* non-empty, otherwise the upstream's server_info.instructions if
\* non-empty, otherwise the upstream's configured instructions if
\* non-empty, otherwise none.
C23_InstructionPrecedence ==
    (call.fn = "initialize" /\ call.entry # "none")
        => call.advertised =
              advertise(ClaimedInstructions(call.config, call.target,
                                            call.server_info, call.instructions))

(***************************************************************************)
(* JSON values as the Python code sees them: None, strings, booleans,      *)
(* integers, lists and dicts (a dict is a function from its keys).         *)
(***************************************************************************)
None == [t |-> "null"]
Str(s) == [t |-> "str", v |-> s]
Bool(b) == [t |-> "bool", v |-> b]
Num(n) == [t |-> "int", v |-> n]
List(l) == [t |-> "list", v |-> l]
Dict(d) == [t |-> "dict", v |-> d]
EmptyDict == <<>>

\* key in d, d.get(key), d[key] = value, d.pop(key)
Has(d, k) == k \in DOMAIN d
Get(d, k) == IF k \in DOMAIN d THEN d[k] ELSE None
Put(d, k, x) == [y \in DOMAIN d \cup {k} |-> IF y = k THEN x ELSE d[y]]
Pop(d, k) == [y \in DOMAIN d \ {k} |-> d[y]]

\* bool(x) and isinstance(x, dict)
Truthy(x) ==
    IF x.t = "null" THEN FALSE
    ELSE IF x.t = "bool" THEN x.v
    ELSE IF x.t = "int" THEN x.v # 0
    ELSE IF x.t = "dict" THEN DOMAIN x.v # {}
    ELSE x.v # <<>>
IsDict(x) == x.t = "dict"

(***************************************************************************)
(* MCPComplianceEnforcer.fix_initialization_response and the streaming     *)
(* path's _format_response_for_proxy.                                      *)
(***************************************************************************)
MCP_PROTOCOL_VERSION == <<"2025-03-26">>

\* The value of F at x, with x computed once (a Python local variable).
Pipe(x, F(_)) == CHOOSE y \in {F(v) : v \in {x}} : TRUE

\* "if capabilities.get('logging') is None"
fix_logging(c) ==
    IF Get(c, "logging") = None THEN Put(c, "logging", Dict(EmptyDict)) ELSE c

ensure_list_changed(t) ==
    IF Get(t, "listChanged") = None THEN Put(t, "listChanged", Bool(TRUE)) ELSE t

\* fix_tools with the listChanged default left out for a tools value that
\* was not a dict.
fix_tools_replaced_bare(c) ==
    IF Has(c, "tools") /\ c["tools"] # None
    THEN IF IsDict(c["tools"])
         THEN Put(c, "tools", Dict(ensure_list_changed(c["tools"].v)))
         ELSE Put(c, "tools", Dict(EmptyDict))
    ELSE c

\* "if 'tools' in capabilities and capabilities['tools'] is not None"
fix_tools(c) ==
    IF Has(c, "tools") /\ c["tools"] # None
    THEN Put(c, "tools",
             Dict(Pipe(IF IsDict(c["tools"]) THEN c["tools"].v ELSE EmptyDict,
                       ensure_list_changed)))
    ELSE c

ensure_subscribe(r) ==
    IF Has(r, "subscribe") THEN r ELSE Put(r, "subscribe", Bool(FALSE))
ensure_resources_list_changed(r) ==
    IF Has(r, "listChanged") THEN r ELSE Put(r, "listChanged", Bool(FALSE))

\* "if 'resources' in capabilities and capabilities['resources'] is not None"
fix_resources(c) ==
    IF Has(c, "resources") /\ c["resources"] # None
    THEN IF ~IsDict(c["resources"])
         THEN Put(c, "resources",
                  Dict([subscribe |-> Bool(FALSE), listChanged |-> Bool(FALSE)]))
         ELSE Put(c, "resources",
                  Dict(Pipe(Pipe(c["resources"].v, ensure_subscribe),
                            ensure_resources_list_changed)))
    ELSE c

\* The capabilities part of fix_initialization_response.
fix_capabilities(c) == Pipe(Pipe(Pipe(c, fix_logging), fix_tools), fix_resources)

\* Is value x (a string or None here, so str(x) is x itself) kept as
\* instructions: "x and str(x).strip()".
KeptInstructions(x) == Truthy(x) /\ strip(x.v) # <<>>

ensure_protocol_version(r) ==
    IF Has(r, "protocolVersion") THEN r
    ELSE Put(r, "protocolVersion", Str(MCP_PROTOCOL_VERSION))

ensure_capabilities(r) ==
    Put(r, "capabilities",
        Dict(fix_capabilities(IF Has(r, "capabilities") THEN r["capabilities"].v
                              ELSE EmptyDict)))

ensure_name(si) == IF Has(si, "name") THEN si ELSE Put(si, "name", Str(<<"Unknown">>))
ensure_version(si) == IF Has(si, "version") THEN si ELSE Put(si, "version", Str(<<"1.0.0">>))

ensure_server_info(r) ==
    Put(r, "serverInfo",
        Dict(IF Has(r, "serverInfo")
             THEN Pipe(Pipe(r["serverInfo"].v, ensure_name), ensure_version)
             ELSE [name |-> Str(<<"Unknown">>), version |-> Str(<<"1.0.0">>)]))

\* serverInfo loses instructions (moved to the top level when they have
\* text) and description.
move_instructions(r) ==
    Put(IF Has(r["serverInfo"].v, "instructions")
           /\ KeptInstructions(r["serverInfo"].v["instructions"])
        THEN Put(r, "instructions", Str(strip(r["serverInfo"].v["instructions"].v)))
        ELSE r,
        "serverInfo", Dict(Pop(Pop(r["serverInfo"].v, "instructions"), "description")))

\* "Ensure instructions field is only included if it has a non-empty value"
drop_empty_instructions(r) ==
    IF Has(r, "instructions") /\ ~KeptInstructions(r["instructions"])
    THEN Pop(r, "instructions")
    ELSE r

\* fix_initialization_response(response): response is the dict of the
\* result, with dicts for capabilities and serverInfo where present.
fix_initialization_response(response) ==
    Pipe(Pipe(Pipe(Pipe(Pipe(response, ensure_protocol_version), ensure_capabilities),
                   ensure_server_info), move_instructions), drop_empty_instructions)

ProxyInstructions == <<"MCP-Dock proxy server for P.">>

\* Does _format_response_for_proxy take result for an initialize result?
IsInitializeResult(result) ==
    Has(result, "protocolVersion") /\ Has(result, "capabilities") /\ Has(result, "serverInfo")

\* "if response_dict['result']['serverInfo'].get('instructions') is None"
add_proxy_instructions(fixed) ==
    IF Get(fixed["serverInfo"].v, "instructions") = None
    THEN Put(fixed, "serverInfo",
             Dict(Put(fixed["serverInfo"].v, "instructions", Str(ProxyInstructions))))
    ELSE fixed

\* _format_response_for_proxy on the result of a JSON-RPC response: the fix,
\* then the proxy's own text where serverInfo has no instructions.
format_response_for_proxy(result) ==
    IF IsInitializeResult(result)
    THEN Pipe(fix_initialization_response(result), add_proxy_instructions)
    ELSE result

\* Upstream replies: any subset of the four top-level fields, instructions
\* being None or text, capabilities and serverInfo being dicts.
InstructionValues == {None} \cup {Str(x) : x \in Strings}
Optional(k, values) == {EmptyDict} \cup {k :> x : x \in values}
CapabilityReplies ==
    {EmptyDict, "logging" :> None, "tools" :> None, "tools" :> Bool(TRUE),
     "tools" :> Dict(EmptyDict), "resources" :> Str(<<"a">>),
     "resources" :> Dict("subscribe" :> Bool(TRUE))}
ServerInfoReplies ==
    {n @@ i @@ d : n \in Optional("name", {Str(<<"a">>)}),
                   i \in Optional("instructions", InstructionValues),
                   d \in Optional("description", {Str(<<"a">>)})}
InitializeReplies ==
    {v @@ c @@ si @@ i :
        v \in Optional("protocolVersion", {Str(<<"2024-11-05">>)}),
        c \in Optional("capabilities", {Dict(x) : x \in CapabilityReplies}),
        si \in Optional("serverInfo", {Dict(x) : x \in ServerInfoReplies}),
        i \in Optional("instructions", InstructionValues)}

\* A function is handed its argument, then returns.
Given(fn, arg) == [fn |-> fn, stage |-> "given", arg |-> arg, out |-> arg]
Returns(fn, out) ==
    /\ call.fn = fn
    /\ call.stage = "given"
    /\ call' = [call EXCEPT !.stage = "returned", !.out = out]
    /\ CallFrame

\* verify_mcp_server stores fix_initialization_response(init_response).
apply_fix_initialization_response ==
    Returns("fix_initialization_response", fix_initialization_response(call.arg))

\* _process_stream_request emits _format_response_for_proxy(result).
apply_format_response_for_proxy ==
    Returns("_format_response_for_proxy", format_response_for_proxy(call.arg))


\* Has the returned value passed through fix_initialization_response?
Normalized ==
    /\ call.fn \in {"fix_initialization_response", "_format_response_for_proxy"}
    /\ call.stage = "returned"
    /\ (call.fn = "_format_response_for_proxy" => IsInitializeResult(call.arg))

\* C24: in every initialize response that has passed through
\* fix_initialization_response, the ones the gateway then emits included,
\* serverInfo holds no instructions key and no description key, and a
\* top-level instructions field, if present, is non-empty after trimming.
C24_NormalizedServerInfo ==
    Normalized
        => (/\ ~Has(call.out["serverInfo"].v, "instructions")
            /\ ~Has(call.out["serverInfo"].v, "description")
            /\ (Has(call.out, "instructions")
                   => /\ call.out["instructions"].t = "str"
                      /\ strip(call.out["instructions"].v) # <<>>))

\* C27: fix_initialization_response is idempotent: normalizing a normalized
\* reply yields the reply that normalizing once yielded.
C27_NormalizeIdempotent ==
    (call.fn = "fix_initialization_response" /\ call.stage = "returned")
        => fix_initialization_response(call.out) = call.out

\* A reply whose serverInfo instructions were moved and whose tools
\* capability was rebuilt has been normalized.
C27_Witness ==
    /\ call.fn = "fix_initialization_response"
    /\ call.stage = "returned"
    /\ Has(call.arg, "serverInfo")
    /\ Has(call.arg["serverInfo"].v, "instructions")
    /\ Has(call.out, "instructions")
    /\ Has(call.arg, "capabilities")
    /\ Get(call.arg["capabilities"].v, "tools") = Bool(TRUE)
    /\ call.out # call.arg

(***************************************************************************)
(* MCPComplianceEnforcer.ensure_jsonrpc_response.                          *)
(***************************************************************************)
\* What a call that raised leaves instead of a value.
Raised(e) == [t |-> "raised", v |-> e]

\* str(x): the text of a string, some other text for anything else.
ToText(x) == IF x.t = "str" THEN x.v ELSE <<"repr">>

\* Is error an object with code and message?
WellFormedError(error) == IsDict(error) /\ Has(error.v, "code") /\ Has(error.v, "message")

\* MCPComplianceValidator.validate_jsonrpc_response: is_valid.
validate_jsonrpc_response(response) ==
    /\ Has(response, "jsonrpc")
    /\ response["jsonrpc"] = Str(<<"2.0">>)
    /\ Has(response, "id")
    /\ Has(response, "result") # Has(response, "error")
    /\ Has(response, "error")
          => /\ WellFormedError(response["error"])
             /\ response["error"].v["code"].t = "int"
             /\ response["error"].v["message"].t = "str"

\* The error or result member ensure_jsonrpc_response gives the rebuilt
\* response (response is a dict).
rebuilt_member(response) ==
    IF Has(response, "error")
    THEN "error" :>
           (IF WellFormedError(response["error"])
            THEN response["error"]
            ELSE Dict([code |-> Num(InternalError),
                       message |-> Str(IF Truthy(response["error"])
                                       THEN ToText(response["error"])
                                       ELSE <<"Internal error">>)]))
    ELSE "result" :>
           (IF Has(response, "result")
            THEN response["result"]
            ELSE IF DOMAIN response \ {"jsonrpc", "id"} # {}
                 THEN Dict(Pop(Pop(response, "jsonrpc"), "id"))
                 ELSE Dict(response))

\* ensure_jsonrpc_response(response, request_id): a valid response is
\* returned as it is; anything else is rebuilt, which starts by calling
\* response.get and so raises AttributeError for a value that is no dict.
ensure_jsonrpc_response(response, request_id) ==
    IF IsDict(response) /\ Has(response.v, "jsonrpc")
          /\ validate_jsonrpc_response(response.v)
    THEN response
    ELSE IF ~IsDict(response)
    THEN Raised("AttributeError")
    ELSE Dict([jsonrpc |-> Str(<<"2.0">>),
               id |-> IF Has(response.v, "id") THEN response.v["id"] ELSE request_id]
              @@ rebuilt_member(response.v))

\* Values handed to ensure_jsonrpc_response: values that are no dict, and
\* dicts over the members of a response and one other key.
ErrorValues ==
    {None, Str(<<"a">>),
     Dict([code |-> Num(1), message |-> Str(<<"a">>)]),
     Dict([code |-> Str(<<"a">>), message |-> Str(<<"a">>)]),
     Dict([code |-> Num(1)])}
ResponseValues ==
    {None, Str(<<"a">>), List(<<Num(1)>>)}
    \cup {Dict(j @@ i @@ r @@ e @@ o) :
            j \in Optional("jsonrpc", {Str(<<"2.0">>), Str(<<"1.0">>)}),
            i \in Optional("id", {None, Num(1)}),
            r \in Optional("result", {Num(1), Dict(EmptyDict)}),
            e \in Optional("error", ErrorValues),
            o \in Optional("data", {Num(1)})}

\* A handler returns ensure_jsonrpc_response(response, message.get("id")).
apply_ensure_jsonrpc_response ==
    Returns("ensure_jsonrpc_response",
            ensure_jsonrpc_response(call.arg.response, call.arg.request_id))

\* C26: ensure_jsonrpc_response is idempotent: for every input value and
\* request id it returns a response, and applying it to that response with
\* the same request id returns the same response.
C26_EnsureIdempotent ==
    (call.fn = "ensure_jsonrpc_response" /\ call.stage = "returned")
        => /\ call.out.t # "raised"
           /\ ensure_jsonrpc_response(call.out, call.arg.request_id) = call.out

(***************************************************************************)
(* MCPComplianceEnforcer.fix_tool_definition.                              *)
(***************************************************************************)
\* The types a JSON schema can name.
JsonSchemaTypes == {"object", "array", "string", "number", "integer", "boolean", "null"}

\* The schema given to a tool that has none, or one that is no object.
DefaultInputSchema == Dict([type |-> Str(<<"object">>), properties |-> Dict(EmptyDict)])

ensure_tool_name(tool) ==
    IF Has(tool, "name") THEN tool ELSE Put(tool, "name", Str(<<"Tool-", "id">>))

ensure_tool_description(tool) ==
    IF Has(tool, "description") THEN tool
    ELSE Put(tool, "description", Str(<<"No description provided">>))

ensure_input_schema(tool) ==
    IF Has(tool, "inputSchema") THEN tool ELSE Put(tool, "inputSchema", DefaultInputSchema)

\* A schema that is an object and has no type gets the type "object", and
\* properties when it has none; a type that is there is left as it is.
ensure_schema_type(schema) ==
    IF Has(schema, "type") THEN schema
    ELSE IF Has(schema, "properties") THEN Put(schema, "type", Str(<<"object">>))
    ELSE Put(Put(schema, "type", Str(<<"object">>)), "properties", Dict(EmptyDict))

ensure_schema_structure(tool) ==
    IF ~IsDict(tool["inputSchema"]) THEN Put(tool, "inputSchema", DefaultInputSchema)
    ELSE Put(tool, "inputSchema", Dict(ensure_schema_type(tool["inputSchema"].v)))

fix_tool_definition(tool) ==
    Pipe(Pipe(Pipe(Pipe(tool, ensure_tool_name), ensure_tool_description),
              ensure_input_schema), ensure_schema_structure)

\* Tool definitions as upstream servers send them.
SchemaValues ==
    {Str(<<"a">>), None}
    \cup {Dict(t @@ p @@ r) :
            t \in Optional("type", {Str(<<x>>) : x \in JsonSchemaTypes}
                                   \cup {Str(<<"any">>), List(<<Str(<<"string">>), Str(<<"null">>)>>), None}),
            p \in Optional("properties", {Dict(EmptyDict), Dict([q |-> Dict([type |-> Str(<<"string">>)])])}),
            r \in Optional("required", {List(<<Str(<<"q">>)>>)})}
ToolDefinitions ==
    {n @@ d @@ i :
        n \in Optional("name", {Str(<<"a">>)}),
        d \in Optional("description", {Str(<<"a">>)}),
        i \in Optional("inputSchema", SchemaValues)}

\* The verification of a server passes every tool of the upstream list
\* through fix_tool_definition.
apply_fix_tool_definition ==
    Returns("fix_tool_definition", fix_tool_definition(call.arg))

\* C28: for every tool definition the normalized tool has an inputSchema
\* whose type is one of object, array, string, number, integer, boolean,
\* null.
C28_SchemaTypeKnown ==
    (call.fn = "fix_tool_definition" /\ call.stage = "returned")
        => /\ Has(call.out, "inputSchema")
           /\ IsDict(call.out["inputSchema"])
           /\ Has(call.out["inputSchema"].v, "type")
           /\ call.out["inputSchema"].v["type"] \in {Str(<<x>>) : x \in JsonSchemaTypes}

(***************************************************************************)
(* clean_tool_arguments (protocol_converter.py).                           *)
(***************************************************************************)
\* The argument names of the modelled tools, and those of them for which
\* "cursor" in key.lower() holds.
ArgumentKeys == {"cursor", "Start_Cursor", "query", "filter"}
CursorKeys == {"cursor", "Start_Cursor"}

\* isinstance(value, str) and value.strip() == ""
IsBlank(value) == value.t = "str" /\ strip(value.v) = <<>>

RECURSIVE clean_tool_arguments(_)

\* A variant of cleaned_value that writes a null as the empty string.
cleaned_value_null_as_empty(value) ==
    IF value = None THEN Str(<<>>)
    ELSE IF IsDict(value) THEN clean_tool_arguments(value) ELSE value

\* What is stored under a key that is kept: a nested dict is cleaned, any
\* other value (a list too) is stored as it is.
cleaned_value(value) ==
    IF IsDict(value) THEN clean_tool_arguments(value) ELSE value

\* clean_tool_arguments(arguments): a value that is no dict is returned as
\* it is; of a dict, the cursor-named keys whose value is a blank string
\* are left out.
clean_tool_arguments(arguments) ==
    IF ~IsDict(arguments) THEN arguments
    ELSE Dict([key \in {k \in DOMAIN arguments.v :
                          ~(IsBlank(arguments.v[k]) /\ k \in CursorKeys)}
                 |-> cleaned_value(arguments.v[key])])

\* Argument objects of a tools/call.
NestedArguments ==
    {Dict(c @@ q) :
        c \in Optional("cursor", {Str(<<>>), Str(<<" ">>), Str(<<"a">>), None}),
        q \in Optional("query", {Str(<<>>), Str(<<"a">>)})}
ArgumentObjects ==
    {None, List(<<Str(<<>>)>>)}
    \cup {Dict(c @@ s @@ q @@ f) :
            c \in Optional("cursor", {Str(x) : x \in Strings} \cup {None} \cup NestedArguments),
            s \in Optional("Start_Cursor", {Str(<<>>), Str(<<"a">>)}),
            q \in Optional("query", {Str(<<>>), Str(<<"a">>)}),
            f \in Optional("filter", NestedArguments \cup {List(<<Str(<<>>)>>)})}

\* handle_tool_call_request cleans the arguments of a tools/call.
apply_clean_tool_arguments ==
    Returns("clean_tool_arguments", clean_tool_arguments(call.arg))

\* C29: clean_tool_arguments is idempotent: cleaning an argument object
\* that has been cleaned returns it unchanged.
C29_CleanIdempotent ==
    (call.fn = "clean_tool_arguments" /\ call.stage = "returned")
        => clean_tool_arguments(call.out) = call.out

\* A call that dropped a blank cursor at the top and inside a nested dict,
\* and kept a null cursor and a blank argument of another name.
C29_Witness ==
    /\ call.fn = "clean_tool_arguments" /\ call.stage = "returned"
    /\ IsDict(call.arg)
    /\ Get(call.arg.v, "Start_Cursor") = Str(<<>>)
    /\ Get(call.arg.v, "cursor") = None
    /\ Get(call.arg.v, "query") = Str(<<>>)
    /\ Has(call.arg.v, "filter") /\ IsDict(call.arg.v["filter"])
    /\ Get(call.arg.v["filter"].v, "cursor") = Str(<<" ">>)
    /\ DOMAIN call.out.v = {"cursor", "query", "filter"}
    /\ ~Has(call.out.v["filter"].v, "cursor")

(***************************************************************************)
(* SpecShaping: each message-shaping function is handed one value of its   *)
(* bounded input set and returns.                                          *)
(***************************************************************************)
InitShaping ==
    /\ InitManagers
    /\ call \in {Given(fn, r) :
                   fn \in {"fix_initialization_response", "_format_response_for_proxy"},
                   r \in InitializeReplies}
             \cup {Given("ensure_jsonrpc_response", [response |-> r, request_id |-> i]) :
                   r \in ResponseValues, i \in {None, Num(2)}}
             \cup {Given("fix_tool_definition", t) : t \in ToolDefinitions}
             \cup {Given("clean_tool_arguments", x) : x \in ArgumentObjects}

NextShaping ==
    \/ apply_fix_initialization_response
    \/ apply_format_response_for_proxy
    \/ apply_ensure_jsonrpc_response
    \/ apply_fix_tool_definition
    \/ apply_clean_tool_arguments

SpecShaping == InitShaping /\ [][NextShaping]_vars

(***************************************************************************)
(* The arguments of a forwarded tools/call.                                *)
(***************************************************************************)
\* The arguments clients send with a tools/call.
CallArguments ==
    {Dict(EmptyDict),
     Dict([cursor |-> Str(<<>>)]),
     Dict([cursor |-> Str(<<"a">>), query |-> Str(<<>>)]),
     Dict([filter |-> Dict([cursor |-> Str(<<" ">>)])])}

\* McpProxyManager._process_stream_request for a tools/call: the method is
\* looked up in exposed_tools when that list is not empty; otherwise method
\* and params go to the backend session as they came.
create_proxy_stream_call(prx, srv, up) ==
    IF ~prx.present \/ ~srv.present
    THEN [code |-> StreamError, forwarded |-> FALSE]
    ELSE IF prx.exposed_tools # <<>>
    THEN [code |-> MethodNotFound, forwarded |-> FALSE]
    ELSE [code |-> IF up THEN CodeOk ELSE InternalError, forwarded |-> TRUE]

\* The answer to a tools/call together with the arguments the client sent
\* and those that went to the upstream (None when nothing was forwarded).
ArgumentAnswer(entry, p, prx, tool, r, arguments, sent) ==
    [entry |-> entry, proxy |-> p, tool |-> tool, exposed |-> prx.exposed_tools,
     code |-> r.code, forwarded |-> r.forwarded,
     arguments |-> arguments, sent |-> IF r.forwarded THEN sent ELSE None]

\* POST /{proxy} with a tools/call: handle_tool_call_request builds the
\* forwarded request from the cleaned arguments.
handle_proxy_request_call(p, tool, arguments, up) ==
    /\ initialized
    /\ proxies[p].present
    /\ LET prx == proxies[p]
           svs == RecoveryRead(prx)
           rec == auto_recover(prx, svs[prx.server_name], PostStatuses)
       IN  /\ servers' = svs
           /\ proxies' = [proxies EXCEPT ![p] = rec]
           /\ lastReq' = IF rec.status = "running"
                         THEN ArgumentAnswer("jsonrpc_post", p, rec, tool,
                                  handle_tool_call_request(rec, svs[rec.server_name],
                                                           tool, up),
                                  arguments, clean_tool_arguments(arguments))
                         ELSE lastReq
    /\ UNCHANGED <<initialized, delayed, restarting>>
    /\ ProxyFrame

\* POST /{proxy}?stream=true with a tools/call: the request body goes to
\* create_proxy_stream.
handle_proxy_request_stream_call(p, tool, arguments, up) ==
    /\ initialized
    /\ proxies[p].present
    /\ LET prx == proxies[p]
           svs == RecoveryRead(prx)
           rec == auto_recover(prx, svs[prx.server_name], PostStatuses)
       IN  /\ servers' = svs
           /\ proxies' = [proxies EXCEPT ![p] = rec]
           /\ lastReq' = IF rec.status = "running"
                         THEN ArgumentAnswer("jsonrpc_stream", p, rec, tool,
                                  create_proxy_stream_call(rec, svs[rec.server_name], up),
                                  arguments, arguments)
                         ELSE lastReq
    /\ UNCHANGED <<initialized, delayed, restarting>>
    /\ ProxyFrame

\* POST /{proxy}/messages with a tools/call: handle_proxy_streamable_http
\* calls handle_tool_call_request.
handle_proxy_streamable_http_call(p, tool, arguments, up) ==
    /\ initialized
    /\ lastReq' = ArgumentAnswer("streamable_http", p, proxies[p], tool,
                      handle_tool_call_request(proxies[p], TargetOf(proxies[p]), tool, up),
                      arguments, clean_tool_arguments(arguments))
    /\ UNCHANGED <<servers, proxies, initialized, delayed, restarting>>
    /\ ProxyFrame

\* POST /api/proxy/{name}/call with a tools/call: the body goes to
\* proxy_request.
proxy_call_arguments(p, tool, arguments, up) ==
    /\ initialized
    /\ lastReq' = ArgumentAnswer("proxy_request", p, proxies[p], tool,
                      proxy_call(proxies[p], TargetOf(proxies[p]), tool, up),
                      arguments, arguments)
    /\ UNCHANGED <<servers, proxies, initialized, delayed, restarting>>
    /\ ProxyFrame

\* POST /api/proxy/endpoint/{name} with a tools/call: the body goes to
\* proxy_request.
mcp_endpoint_arguments(p, tool, arguments, up) ==
    /\ initialized
    /\ proxies[p].present /\ proxies[p].status = "running"
    /\ LET r == proxy_request(proxies[p], TargetOf(proxies[p]), tool, up)
       IN  lastReq' = ArgumentAnswer("mcp_endpoint", p, proxies[p], tool,
                          [code |-> r.code, forwarded |-> r.forwarded],
                          arguments, arguments)
    /\ UNCHANGED <<servers, proxies, initialized, delayed, restarting>>
    /\ ProxyFrame

\* POST /messages?sessionId= with a tools/call, up to the await of the
\* upstream: handle_sse_message calls handle_tool_call_request.
handle_sse_message_call_arguments(sid, p, id, tool, arguments, up) ==
    /\ initialized
    /\ sid \in DOMAIN sessions
    /\ LET got == Touch(sessions, sid, now)
           prx == proxies[p]
           r == handle_tool_call_request(prx, TargetOf(prx), tool, up)
       IN  IF got[sid].proxy_name # p
           THEN /\ sessions' = got
                /\ UNCHANGED <<nextMsg, inflight, lastReq>>
           ELSE /\ lastReq' = ArgumentAnswer("sse_post", p, prx, tool, r,
                                             arguments, clean_tool_arguments(arguments))
                /\ nextMsg' = Max2(nextMsg, id + 1)
                /\ IF r.forwarded
                   THEN /\ inflight' = inflight \cup {[sid |-> sid, id |-> id]}
                        /\ sessions' = got
                   ELSE /\ sessions' = add_message(got, sid, Message(id, TRUE), TRUE, now)
                        /\ UNCHANGED inflight
    /\ UNCHANGED <<now, history, cache, violations, streams, nextSid, lastReg,
                   removals, cleaned, delivered, lastDrain>>
    /\ SessionFrame

\* SSESessionManager.handle_mcp_message with a tools/call: _handle_tool_call
\* hands the message to proxy_request.
handle_mcp_message_call_arguments(sid, tool, arguments, up) ==
    /\ initialized
    /\ sid \in DOMAIN sessions
    /\ LET p == sessions[sid].proxy_name
           prx == proxies[p]
       IN  /\ sessions' = Touch(sessions, sid, now)
           /\ lastReq' = ArgumentAnswer("session_engine", p, prx, tool,
                             handle_tool_call(prx, TargetOf(prx), tool, up),
                             arguments, arguments)
    /\ UNCHANGED <<now, history, cache, violations, streams, nextSid, lastReg,
                   removals, cleaned, delivered, lastDrain, nextMsg, inflight>>
    /\ SessionFrame

NextArguments ==
    \/ StartUp
    \/ \E p \in ProxyNames : mcp_sse_stream_open(1, 1, p, "1.2.3.4")
    \/ mcp_sse_stream_finally(1)
    \/ \E p \in ProxyNames, tool \in CallTools, x \in CallArguments, up \in BOOLEAN :
          \/ handle_proxy_request_call(p, tool, x, up)
          \/ handle_proxy_request_stream_call(p, tool, x, up)
          \/ handle_proxy_streamable_http_call(p, tool, x, up)
          \/ proxy_call_arguments(p, tool, x, up)
          \/ mcp_endpoint_arguments(p, tool, x, up)
          \/ nextMsg <= MaxCallMsg /\ handle_sse_message_call_arguments(1, p, nextMsg, tool, x, up)
    \/ \E req \in inflight : handle_sse_message_enqueue(req)
    \/ \E tool \in CallTools, x \in CallArguments, up \in BOOLEAN :
          handle_mcp_message_call_arguments(1, tool, x, up)

SpecArguments == InitGateway /\ [][NextArguments]_vars

\* C25: the arguments of every tools/call that is forwarded to an upstream
\* are the client's arguments passed through clean_tool_arguments, on
\* every entry that can forward a tools/call.
C25_ForwardedArgumentsCleaned ==
    ("sent" \in DOMAIN lastReq /\ lastReq.forwarded)
        => lastReq.sent = clean_tool_arguments(lastReq.arguments)

(***************************************************************************)
(* The end of a stream and the sessions of other streams (SpecStream).     *)
(***************************************************************************)
\* Has the session stream k registered been replaced by a later stream that
\* registered the same id?
ReRegistered(k) ==
    \E j \in SessionIds : j > k /\ streams[j].registered /\ streams[j].sid = streams[k].sid

\* C30: the end of a stream removes only the session this stream itself
\* registered: a live stream whose session was neither taken by the cleanup
\* loop nor replaced by a later registration of its id still has its
\* session, whatever other streams (denied ones, or ones whose id was
\* registered again) have ended.
C30_EndRemovesOwnSessionOnly ==
    \A k \in SessionIds :
        (/\ streams[k].registered
         /\ streams[k].pos \in {"open", "idle"}
         /\ k \notin cleaned
         /\ ~ReRegistered(k))
            => OwnedBy(k) # {}

(***************************************************************************)
(* SpecStopped: proxies that are started at start-up and then stopped,     *)
(* started again, restarted and updated by the operator, while clients     *)
(* send requests, the delayed tool update runs and the server changes.     *)
(***************************************************************************)
NextStopped ==
    \/ \E s \in ServerNames : StartServer(s)
    \/ \E s \in ServerNames : StopServer(s)
    \/ \E s \in ServerNames : VerifyServer(s)
    \/ initialize(ProxyNames)
    \/ \E p \in ProxyNames : delayed_proxy_tool_update(p)
    \/ \E p \in ProxyNames : stop_proxy(p)
    \/ \E p \in ProxyNames : start_proxy(p)
    \/ \E p \in ProxyNames : restart_proxy_begin(p)
    \/ \E p \in ProxyNames : restart_proxy_finish(p)
    \/ \E p \in ProxyNames : update_tools_route(p)
    \/ \E p \in ProxyNames : force_update_proxy(p)
    \/ \E p \in ProxyNames : handle_proxy_warmup(p)
    \/ \E p \in ProxyNames, tool \in ToolNames, up \in BOOLEAN :
          handle_proxy_request(p, "tools/call", tool, up)

SpecStopped == InitGateway /\ [][NextStopped]_vars

\* Proxy p is stopped and no restart of it is under way.  (Start-up leaves
\* every proxy running or in error, so under SpecStopped such a proxy was
\* stopped by stop_proxy.)
StoppedByStop(p) ==
    /\ initialized
    /\ ~restarting[p]
    /\ proxies[p].status = "stopped"
    /\ proxies[p].tools = <<>>

\* An operation the operator invokes on proxy p to bring it back.
StartedByOperator(p) ==
    \/ start_proxy(p)
    \/ restart_proxy_begin(p)
    \/ update_tools_route(p)
    \/ force_update_proxy(p)

\* C31: a proxy stopped by stop stays stopped with an empty tool list until
\* start, restart, update or force-update is invoked on it: no other step
\* (a client request, the delayed tool update) makes it running or refills
\* its tools.
C31_StoppedStaysStopped ==
    [][\A p \in ProxyNames :
          (StoppedByStop(p) /\ ~StartedByOperator(p))
              => (proxies'[p].status = "stopped" /\ proxies'[p].tools = <<>>)]_vars

(***************************************************************************)
(* SpecDeliver: one SSE stream whose client stays connected, requests      *)
(* posted to its session, and the clock.  The generator of the stream is   *)
(* scheduled whenever it can take a step.                                  *)
(***************************************************************************)
StreamStep ==
    \E k \in QueueStreams :
        \/ mcp_sse_stream_poll(k)
        \/ mcp_sse_stream_yield(k)
        \/ mcp_sse_stream_heartbeat(k)

NextDeliver ==
    \/ StartUp
    \/ \E k \in QueueStreams, p \in ProxyNames :
          mcp_sse_stream_open(k, k, p, "1.2.3.4")
    \/ StreamStep
    \/ \E sid \in QueueStreams, p \in ProxyNames :
          nextMsg <= MaxMsg /\ handle_sse_message_initialize(sid, p, nextMsg)
    \/ Tick(QueueStep, MaxQueueTime)

SpecDeliver == InitGateway /\ [][NextDeliver]_vars /\ WF_vars(StreamStep)

\* The response to request id stands in the queue of a session: the request
\* was answered 202.
Accepted(id) ==
    \E sid \in DOMAIN sessions :
        \E i \in 1..Len(sessions[sid].pending_messages) :
            sessions[sid].pending_messages[i].message.id = id

\* The response to request id was written to a stream as a message frame.
Delivered(id) ==
    \E k \in SessionIds : \E i \in 1..Len(delivered[k]) : delivered[k][i].id = id

\* C32: every SSE-message request accepted with 202 is eventually delivered
\* as a message frame on the session's stream, the client staying
\* connected.
C32_AcceptedIsDelivered ==
    \A id \in 1..MaxMsg : Accepted(id) ~> Delivered(id)

(***************************************************************************)
(* SpecDenial: streams opening and ending under the rate limits while the  *)
(* operator clears the creation history (the debug/rate-limit/clear route) *)
(* and the clock moves.                                                    *)
(***************************************************************************)
AllClients == "all"

\* clear_rate_limit_history(client_host): the history of one client, or of
\* all of them, is dropped; the rate-limit cache is left as it is.
clear_rate_limit_history(c) ==
    /\ initialized
    /\ history' = [cl \in ClientHosts |->
                     IF c = AllClients \/ c = cl THEN <<>> ELSE history[cl]]
    /\ UNCHANGED <<now, sessions, cache, violations, streams, nextSid, lastReg,
                   removals, cleaned, delivered, lastDrain, nextMsg, inflight, lastReq>>
    /\ SessionFrame

NextDenial ==
    \/ StartUp
    \/ \E k \in 1..MaxStreams, p \in ProxyNames, c \in ClientHosts :
          mcp_sse_stream_open(k, k, p, c)
    \/ \E k \in 1..MaxStreams : mcp_sse_stream_finally(k)
    \/ \E c \in ClientHosts \cup {AllClients} : clear_rate_limit_history(c)
    \/ Tick(RateStep, MaxRateTime)

SpecDenial == InitGateway /\ [][NextDenial]_vars

\* C33: register_session denies a registration only if, at the moment of
\* the call, the client's session creations inside the window have reached
\* the effective per-client cap or the live sessions on the proxy have
\* reached max_sessions_per_proxy.
C33_DeniedOnlyAtLimit ==
    (lastReg.valid /\ ~lastReg.allowed)
        => \/ lastReg.count >= max_sessions_per_client
                                 + (IF lastReg.burst THEN burst_allowance ELSE 0)
           \/ lastReg.onproxy >= max_sessions_per_proxy

(***************************************************************************)
(* Operations on one proxy while a restart of it sleeps (SpecStopped).     *)
(***************************************************************************)
\* C34: operations that change one proxy's status or tool list are
\* serialized per proxy: while a restart of proxy p is between its two
\* halves (status stopped and tools emptied, not yet running again) no
\* other operation writes the status or the tool list of p.
C34_SerializedPerProxy ==
    [][\A p \in ProxyNames :
          (restarting[p] /\ restarting'[p]) => proxies'[p] = proxies[p]]_vars

(***************************************************************************)
(* SpecLock: one thread runs one public operation of the session engine,   *)
(* step by step: the acquisitions and releases of session_lock (a          *)
(* threading.Lock, which is not reentrant) and the reads and writes of the *)
(* engine's maps, in the order of the code.                                *)
(***************************************************************************)
Acquire == [do |-> "acquire", map |-> "session_lock"]
Release == [do |-> "release", map |-> "session_lock"]
Read(map) == [do |-> "read", map |-> map]
Write(map) == [do |-> "write", map |-> map]

\* with self.session_lock: body
Locked(body) == <<Acquire>> \o body \o <<Release>>

RECURSIVE Repeat(_, _)
Repeat(body, n) == IF n = 0 THEN <<>> ELSE body \o Repeat(body, n - 1)

EngineOps ==
    {"register_session", "has_session", "unregister_session", "add_message",
     "get_pending_messages", "smart_cleanup_sessions", "clear_rate_limit_history",
     "reload_rate_limit_config", "get_rate_limit_violation_stats",
     "get_rate_limit_status", "cleanup_old_sessions"}

\* cleanup_old_sessions with n sessions older than max_age_seconds: under
\* the lock it lists them and calls unregister_session for each.
OldSessions(n) ==
    <<Acquire, Read("sessions")>>
        \o Repeat(Locked(<<Read("sessions"), Write("sessions")>>), n)
        \o <<Release>>

\* The steps of operation op: n is the number of sessions it finds expired,
\* flag the outcome of its test (register_session: allowed;
\* reload_rate_limit_config: the limits changed).
Body(op, n, flag) ==
    CASE op = "register_session" ->
           Locked(<<Read("cache"), Read("history"), Write("history")>>
                  \o (IF flag
                      THEN <<Read("sessions"), Write("cache"), Read("sessions"),
                             Write("history"), Write("sessions"), Read("sessions")>>
                      ELSE <<Write("violations"), Write("cache")>>))
      [] op = "has_session" -> Locked(<<Read("sessions")>>)
      [] op = "unregister_session" -> Locked(<<Read("sessions"), Write("sessions")>>)
      [] op = "add_message" -> Locked(<<Read("sessions")>>)
      [] op = "get_pending_messages" -> Locked(<<Read("sessions")>>)
      [] op = "smart_cleanup_sessions" ->
           <<Read("sessions")>>
               \o Locked(<<Read("sessions")>> \o Repeat(<<Write("sessions")>>, n))
      [] op = "clear_rate_limit_history" ->
           Locked(<<Read("history"), Write("history")>>)
      [] op = "reload_rate_limit_config" ->
           IF flag THEN <<Write("cache")>> ELSE <<>>
      [] op = "get_rate_limit_violation_stats" -> <<Read("violations")>>
      [] op = "get_rate_limit_status" ->
           Locked(<<Read("sessions"), Read("history"), Read("violations"), Read("cache")>>)
      [] op = "cleanup_old_sessions" -> OldSessions(n)

\* The operation takes its next step; acquire waits while the lock is held,
\* also when the holder is the caller itself.
engine_step ==
    /\ call.fn = "engine" /\ call.stage = "running"
    /\ call.pc <= Len(call.script)
    /\ LET step == call.script[call.pc]
       IN  /\ step.do = "acquire" => ~call.held
           /\ call' = [call EXCEPT !.pc = @ + 1,
                                   !.held = IF step.do = "acquire" THEN TRUE
                                            ELSE IF step.do = "release" THEN FALSE
                                            ELSE @,
                                   !.last = [do |-> step.do, map |-> step.map,
                                             locked |-> call.held]]
    /\ CallFrame

\* The operation returns.
engine_return ==
    /\ call.fn = "engine" /\ call.stage = "running"
    /\ call.pc > Len(call.script)
    /\ call' = [call EXCEPT !.stage = "returned"]
    /\ CallFrame

InitLock ==
    /\ InitManagers
    /\ call \in {[fn |-> "engine", op |-> op, n |-> n, flag |-> flag,
                  script |-> Body(op, n, flag), pc |-> 1, held |-> FALSE,
                  stage |-> "running",
                  last |-> [do |-> "call", map |-> "none", locked |-> FALSE]] :
                 op \in EngineOps, n \in 0..MaxOld, flag \in BOOLEAN}

NextLock ==
    \/ engine_step
    \/ engine_return

SpecLock == InitLock /\ [][NextLock]_vars /\ WF_vars(NextLock)

\* C35: every read and every write of the session map, the creation
\* history, the violation history and the rate-limit cache is made while
\* the session engine's mutex is held.
C35_AccessUnderMutex ==
    (call.fn = "engine" /\ call.last.do \in {"read", "write"}) => call.last.locked

\* C36: every operation of the session engine returns and leaves the mutex
\* free, cleanup_old_sessions with expired sessions included.
C36_ReturnsAndReleases ==
    (call.fn = "engine" /\ call.stage = "running")
        ~> (call.fn = "engine" /\ call.stage = "returned" /\ ~call.held)

(***************************************************************************)
(* An update that renames onto an existing entry (SpecService).            *)
(***************************************************************************)
\* C37: update(old_name, new_config) with a new name that differs from the
\* old one and already names another existing entry leaves that other
\* entry as it was: it still exists with its configuration and its runtime
\* state.
C37_UpdateSparesNamesake ==
    [][\A old, new \in ServiceNames, tt \in Transports, auto \in BOOLEAN :
          (/\ old # new
           /\ servers[old].present /\ servers[new].present
           /\ update_server_route(old, new, tt, auto))
              => servers'[new] = servers[new]]_vars

(***************************************************************************)
(* Status reads (SpecService).                                             *)
(***************************************************************************)
\* C38: reading a service's status with get_server_status changes neither
\* the stored status nor the stored tool list of the service.
C38_StatusReadIsPure ==
    [][\A s \in ServiceNames : get_server(s) => servers'[s] = servers[s]]_vars

(***************************************************************************)
(* What a denied registration leaves (SpecDenial).                         *)
(***************************************************************************)
\* The entries of a creation history that lie inside the window at time t.
InWindow(h, t) == SelectSeq(h, LAMBDA x : x > t - session_creation_window)

\* C39: a denied register_session creates no session and appends nothing
\* to any client's creation history: the session map and the entries of
\* every client's history that lie inside the window are the same before
\* and after the call.  (A register_session call is the step that takes the
\* next stream number.)
C39_DeniedLeavesNoTrace ==
    [][(nextSid' # nextSid /\ ~lastReg'.allowed)
          => /\ sessions' = sessions
             /\ \A c \in ClientHosts :
                   InWindow(history'[c], now) = InWindow(history[c], now)]_vars

\* A registration was denied for the client limit while the client had a
\* session and a creation inside the window.
C39_Witness ==
    /\ lastReg.valid /\ ~lastReg.allowed
    /\ lastReg.recorded = "client_limit"
    /\ InWindow(history[lastReg.client], now) # <<>>
    /\ \E sid \in DOMAIN sessions : sessions[sid].client_host = lastReg.client

(***************************************************************************)
(* The universal protocol converter.                                       *)
(***************************************************************************)
\* The protocol names a caller can pass: the three transports and one name
\* the converter has no class for.
ConverterProtocols == {"stdio", "sse", "streamableHTTP", "websocket"}

\* The conversions followed from the start of the converter.
MaxConversions == 2

\* No converter is cached under a key.
NoConverter == [class |-> "none", server_config |-> "none"]

\* The converter classes: each keeps the server_config it was built with.
ConverterClass(source_protocol, target_protocol) ==
    CASE source_protocol = "stdio" /\ target_protocol = "sse" -> "StdioToSSEConverter"
      [] source_protocol = "stdio" /\ target_protocol = "streamableHTTP" ->
             "StdioToStreamableHTTPConverter"
      [] source_protocol = "sse" /\ target_protocol = "stdio" -> "SSEToStdioConverter"
      [] source_protocol = "sse" /\ target_protocol = "streamableHTTP" ->
             "SSEToStreamableHTTPConverter"
      [] source_protocol = "streamableHTTP" /\ target_protocol = "stdio" ->
             "StreamableHTTPToStdioConverter"
      [] source_protocol = "streamableHTTP" /\ target_protocol = "sse" ->
             "StreamableHTTPToSSEConverter"
      [] OTHER -> IF source_protocol = target_protocol
                  THEN "DirectPassThroughConverter" ELSE "none"

\* get_converter: converter_key is the pair of protocol names (the code
\* joins them with "_to_"); a converter is built with server_config only
\* when the key is not cached yet, and the cached one is returned
\* otherwise.  Gives the cache after the call and the converter returned.
get_converter(converters, source_protocol, target_protocol, server_config) ==
    LET converter_key == <<source_protocol, target_protocol>>
        class == ConverterClass(source_protocol, target_protocol)
    IN  IF converters[converter_key] = NoConverter
        THEN IF class = "none"
             THEN [converters |-> converters, converter |-> NoConverter]
             ELSE LET built == [class |-> class, server_config |-> server_config]
                  IN  [converters |-> [converters EXCEPT ![converter_key] = built],
                       converter |-> built]
        ELSE [converters |-> converters, converter |-> converters[converter_key]]

\* The configuration the converter's convert_message opens its one-shot
\* upstream session with: its own server_config; the pass-through converter
\* returns the message and opens none.
SessionConfig(converter) ==
    IF converter.class = "DirectPassThroughConverter" THEN "no_session"
    ELSE converter.server_config

\* UniversalProtocolConverter.convert_message for the service named
\* service: the converter of get_converter converts the message, or the
\* conversion error is answered when there is none.
convert_message(service, source_protocol, target_protocol) ==
    /\ call.fn = "converter"
    /\ call.count < MaxConversions
    /\ LET got == get_converter(call.converters, source_protocol,
                                target_protocol, service)
       IN  call' = [call EXCEPT
                       !.converters = got.converters,
                       !.count = @ + 1,
                       !.last = [service |-> service,
                                 source |-> source_protocol,
                                 target |-> target_protocol,
                                 answer |-> IF got.converter = NoConverter
                                            THEN "conversion_error"
                                            ELSE "converted",
                                 opened_with |-> IF got.converter = NoConverter
                                                 THEN "no_session"
                                                 ELSE SessionConfig(got.converter)]]
    /\ CallFrame

\* The global converter instance: nothing cached, nothing converted yet.
InitConverter ==
    /\ InitManagers
    /\ call = [fn |-> "converter", count |-> 0,
               converters |-> [k \in ConverterProtocols \X ConverterProtocols
                                  |-> NoConverter],
               last |-> [service |-> "none", source |-> "none", target |-> "none",
                         answer |-> "none", opened_with |-> "no_session"]]

NextConverter ==
    \E service \in ServiceNames, source \in ConverterProtocols,
       target \in ConverterProtocols :
        convert_message(service, source, target)

SpecConverter == InitConverter /\ [][NextConverter]_vars

\* C40: a message converted for a service is sent over an upstream session
\* opened with that service's own configuration, for every service and
\* every pair of transports, whichever services used the converter before.
C40_OwnConfiguration ==
    (call.fn = "converter" /\ call.last.answer = "converted"
        /\ call.last.opened_with # "no_session")
        => call.last.opened_with = call.last.service

====
